---- MODULE Spec2Model ----
(***************************************************************************)
(* RGS (Argis) reactive global state: the versioned store, its computed    *)
(* cache, the transaction / notification engine, the plugin hook pipeline, *)
(* the access-control gate and the local-first sync engine.                *)
(*                                                                         *)
(* The store is single threaded: every public store operation runs to      *)
(* completion, so each is one action.  The working value of an operation   *)
(* is a record w == [s |-> store state, o |-> what the operation did,      *)
(* bad |-> the user callbacks that throw during this operation].           *)
(***************************************************************************)
EXTENDS Integers, Sequences, FiniteSets, TLC

VARIABLES st, out, txDepth, txLog, perm, eng, cyc, net, hyd, clk, sec, undo, tabs,
          cloud

vars == <<st, out, txDepth, txLog, perm, eng, cyc, net, hyd, clk, sec, undo, tabs,
          cloud>>

(***************************************************************************)
(* Bounds of the model.                                                    *)
(***************************************************************************)
MaxNum == 1
MaxVersion == 2
ChainLen == 2
MaxTxDepth == 2
MaxRules == 2
maxRetries == 2
\* The calls of _updateComputed the call stack has room for.
MaxStack == 5

(***************************************************************************)
(* Values.  A JavaScript value is [t, n, items]: t is its type tag, n the  *)
(* number (or the string's identity), items the elements of an array or    *)
(* the property values of a plain object (properties named by position).   *)
(***************************************************************************)
Undef == [t |-> "undefined", n |-> 0, items |-> <<>>]
Null == [t |-> "null", n |-> 0, items |-> <<>>]
Num(i) == [t |-> "number", n |-> i, items |-> <<>>]
Str(i) == [t |-> "string", n |-> i, items |-> <<>>]
Arr(xs) == [t |-> "array", n |-> 0, items |-> xs]
Obj(xs) == [t |-> "object", n |-> 0, items |-> xs]

\* Str(0) is a string holding "javascript:", Str(1) what sanitizeValue makes of it.
DirtyStr == Str(0)
CleanStr == Str(1)

IsObject(v) == v.t \in {"array", "object"}

\* a === b.  Every object that reaches isEqual is a fresh clone (deepClone in
\* set and _updateComputed), so two objects are never the same reference.
StrictEq(a, b) == ~IsObject(a) /\ a = b

\* Object.keys(v): indices of an array, property names of an object.
KeysOf(v) == {<<v.t, i>> : i \in 1..Len(v.items)}

\* A faulty isEqual, strict equality only: C1 does not hold of it.
isEqualShallow(a, b) == StrictEq(a, b)

isEqual(a, b) ==
    IF StrictEq(a, b) THEN TRUE
    ELSE IF a.t = "null" \/ b.t = "null" THEN FALSE
    ELSE IF ~IsObject(a) \/ ~IsObject(b) THEN FALSE
    ELSE IF a.t = "array" /\ b.t = "array"
         THEN /\ Len(a.items) = Len(b.items)
              /\ \A i \in 1..Len(a.items) : a.items[i] = b.items[i]
    ELSE /\ Cardinality(KeysOf(a)) = Cardinality(KeysOf(b))
         /\ \A k \in KeysOf(a) : k \in KeysOf(b) /\ a.items[k[2]] = b.items[k[2]]

sanitizeValue(v) == IF v = DirtyStr THEN CleanStr ELSE v

\* _immerFreeze(deepClone(v), true): a structurally equal, fresh, frozen copy.
Freeze(v) == v

(***************************************************************************)
(* Keys.                                                                   *)
(***************************************************************************)
KBase == <<"base", 0>>
KX == <<"x", 0>>
KBad == <<"bad key", 0>>
L(i) == <<"l", i>>

SrcKeys == {KBase, KX}
CompKeys == {L(i) : i \in 1..ChainLen}
Keys == SrcKeys \cup CompKeys

validateKey(k) == k # KBad

\* The key the selector of computed key c reads: l1 reads base, l(i) reads l(i-1).
SrcOf(c) == IF c[2] = 1 THEN KBase ELSE L(c[2] - 1)

(***************************************************************************)
(* Access control (core/security.ts).  A rule is [pat, perms]; a pattern   *)
(* is abstracted to what it decides: kind "regex" matches the keys in      *)
(* `keys` for every user, kind "fn" is a predicate key \in keys /\ userId  *)
(* = user, kind "invalid" is a string that is no regular expression.       *)
(***************************************************************************)
Permissions == {"read", "write", "delete", "admin"}
Users == {"u1", "u2"}

PatRegexBase == [kind |-> "regex", keys |-> {KBase} \cup CompKeys, user |-> "*"]
PatRegexAll == [kind |-> "regex", keys |-> Keys \cup {KBad}, user |-> "*"]
PatFnX == [kind |-> "fn", keys |-> {KX}, user |-> "u2"]
PatInvalid == [kind |-> "invalid", keys |-> {}, user |-> "*"]
Patterns == {PatRegexBase, PatRegexAll, PatFnX, PatInvalid}

PermSets == {{"read"}, {"read", "write"}, {"admin"}, {"read", "write", "delete"}}

Matches(pat, key, userId) ==
    CASE pat.kind = "fn" -> key \in pat.keys /\ userId = pat.user
      [] pat.kind = "regex" -> key \in pat.keys
      [] OTHER -> FALSE

\* rules.set(pattern, perms): a Map keeps the position of a key it already has.
addAccessRule(rules, pat, perms) ==
    IF \E i \in 1..Len(rules) : rules[i].pat = pat
    THEN [i \in 1..Len(rules) |->
            IF rules[i].pat = pat THEN [pat |-> pat, perms |-> perms] ELSE rules[i]]
    ELSE Append(rules, [pat |-> pat, perms |-> perms])

MatchingRules(rules, key, userId) ==
    {i \in 1..Len(rules) : Matches(rules[i].pat, key, userId)}

FirstOf(S) == CHOOSE i \in S : \A j \in S : i <= j

\* A faulty hasPermission that permits when no rule matches: C3 does not
\* hold of it.
hasPermissionFailOpen(rules, key, action, userId) ==
    IF Len(rules) = 0 THEN TRUE
    ELSE IF MatchingRules(rules, key, userId) = {} THEN TRUE
    ELSE LET r == rules[FirstOf(MatchingRules(rules, key, userId))]
         IN action \in r.perms \/ "admin" \in r.perms

hasPermission(rules, key, action, userId) ==
    IF Len(rules) = 0 THEN TRUE
    ELSE IF MatchingRules(rules, key, userId) = {} THEN FALSE
    ELSE LET r == rules[FirstOf(MatchingRules(rules, key, userId))]
         IN action \in r.perms \/ "admin" \in r.perms

(***************************************************************************)
(* The store (createStore).                                                *)
(***************************************************************************)
Absent == [t |-> "absent", n |-> 0, items |-> <<>>]
NoEntry == [value |-> Absent, persist |-> FALSE, encrypted |-> FALSE]
NoRecord == [v |-> 0, d |-> Absent]
NoComp == [reg |-> FALSE, lastValue |-> Null, deps |-> {}, sel |-> "chain"]

PluginNames == {"p1", "p2"}
HookNames == {"onInstall", "onBeforeSet", "onSet", "onGet", "onRemove", "onTransaction",
              "onDestroy"}

\* The hooks of the plugin `crasher`, every one of which throws when called.
CrashHooks == {"onSet", "onGet", "onRemove", "onTransaction", "onDestroy"}

\* The hooks a plugin defines: p1 all of them, p2 the write hooks only.
PluginHooks(p) ==
    IF p = "p1" THEN HookNames
    ELSE IF p = "gstate-undo-redo" THEN {"onInstall", "onSet"}
    ELSE IF p = "gstate-sync" THEN {"onInstall", "onSet", "onRemove", "onDestroy"}
    ELSE IF p = "crasher" THEN CrashHooks
    ELSE {"onBeforeSet", "onSet", "onRemove"}

\* _snapshot = null.  A snapshot is the object getSnapshot built: id tells
\* one object from another, d is what it maps.
NoSnapshot == [id |-> 0, d |-> [k \in SrcKeys |-> Absent]]

\* The state of a store right after createStore, with the given access rules.
NewStore(rules) ==
    [ store |-> [k \in SrcKeys |-> Absent],
      versions |-> [k \in Keys |-> 0],
      computed |-> [c \in CompKeys |-> NoComp],
      computedDeps |-> [k \in Keys |-> <<>>],
      plugins |-> <<>>,
      diskQueue |-> [k \in SrcKeys |-> NoEntry],
      diskTimer |-> FALSE,
      flushing |-> <<>>,
      storage |-> [k \in SrcKeys |-> NoRecord],
      fullState |-> [written |-> FALSE, d |-> [k \in SrcKeys |-> Absent]],
      snapshot |-> NoSnapshot,
      snapshots |-> 0,
      accessRules |-> rules,
      userId |-> "u1",
      isTransaction |-> FALSE,
      pendingEmit |-> FALSE,
      listeners |-> 1,
      keyListeners |-> Keys,
      watchers |-> Keys ]

\* What one operation did, as its caller and the subscribers see it.
NewOut(op, key, arg) ==
    [ op |-> op, key |-> key, arg |-> arg, ret |-> Undef, threw |-> FALSE,
      committed |-> FALSE, nGlobal |-> 0,
      nKey |-> [k \in Keys |-> 0], nWatch |-> [k \in Keys |-> 0],
      hooks |-> <<>>, errors |-> <<>>, audit |-> <<>>, ver0 |-> 0,
      selErr |-> {}, overflow |-> FALSE, encrypted |-> FALSE ]

StoreGet(s, key) ==
    IF key \in SrcKeys /\ s.store[key] # Absent THEN s.store[key] ELSE Undef

\* versions.get(key) || 0
VersionOf(s, key) == IF key \in Keys THEN s.versions[key] ELSE 0

\* An operation starts: nothing done yet; ver0 is the key's version before it.
\* depth counts the calls of _updateComputed that are on the call stack.
Work(s, op, key, arg, bad) ==
    [s |-> s, o |-> [NewOut(op, key, arg) EXCEPT !.ver0 = VersionOf(s, key)], bad |-> bad,
     depth |-> 0]

_audit(w, action, key, success) ==
    [w EXCEPT !.o.audit = Append(@, <<action, key, success>>)]

\* Plugins.runHook: every installed plugin that defines the hook runs, in
\* registration order; a hook that throws is reported and the loop goes on.
HookRuns(w, name) == SelectSeq(w.s.plugins, LAMBDA p : name \in PluginHooks(p))

HookErrors(w, name) == SelectSeq(HookRuns(w, name), LAMBDA p : <<p, name>> \in w.bad)

\* A faulty runHook without the try/catch around each hook: the first hook
\* that throws ends the loop and the error leaves through the caller.  C19
\* does not hold of it.
runHookAbort(w, name, key) ==
    LET runs == HookRuns(w, name)
        bad == {i \in 1..Len(runs) : <<runs[i], name>> \in w.bad}
        n == IF bad = {} THEN Len(runs) ELSE CHOOSE i \in bad : \A j \in bad : i <= j
    IN [w EXCEPT
          !.o.hooks = @ \o [i \in 1..n |-> <<runs[i], name, key>>],
          !.o.threw = @ \/ bad # {}]

runHook(w, name, key) ==
    LET runs == HookRuns(w, name)
        errs == HookErrors(w, name)
    IN [w EXCEPT
          !.o.hooks = @ \o [i \in 1..Len(runs) |-> <<runs[i], name, key>>],
          !.o.errors = @ \o [i \in 1..Len(errs) |-> <<"plugin", errs[i], name, key>>]]

\* instance.get: the value it returns ...
GetVal(w, key) ==
    IF ~hasPermission(w.s.accessRules, key, "read", w.s.userId) THEN Null
    ELSE StoreGet(w.s, key)

\* ... and what it does.
GetEff(w, key) ==
    IF ~hasPermission(w.s.accessRules, key, "read", w.s.userId)
    THEN _audit(w, "get", key, FALSE)
    ELSE _audit(runHook(w, "onGet", key), "get", key, TRUE)

(***************************************************************************)
(* Computed values and notification (_updateComputed, _emit).              *)
(***************************************************************************)
\* The selector of every computed key is (get) => (get(src) || 0) + 1 over
\* numbers; on a truthy value that is no number it throws.
Falsy(v) == v.t \in {"undefined", "null"} \/ v = Num(0)
SelThrows(v) == ~Falsy(v) /\ v.t # "number"
SelResult(v) == IF Falsy(v) THEN Num(1) ELSE Num(v.n + 1)

IsComputed(s, k) == k \in CompKeys /\ s.computed[k].reg

Without(seq, c) == SelectSeq(seq, LAMBDA x : x # c)

\* A faulty upkeep of the reverse index that adds the new edges and prunes
\* none: C40 does not hold of it.
SyncDepsNoPrune(cd, c, oldDeps, found) ==
    [d \in Keys |-> IF d \in found \ oldDeps THEN Append(cd[d], c) ELSE cd[d]]

\* The two forEach loops of _updateComputed that keep _computedDeps (the
\* reverse index) in step with the keys the selector has just read.
SyncDeps(cd, c, oldDeps, found) ==
    [d \in Keys |->
        IF d \in oldDeps \ found THEN Without(cd[d], c)
        ELSE IF d \in found \ oldDeps THEN Append(cd[d], c)
        ELSE cd[d]]

\* A faulty _emit that ignores _isTransaction: C2 does not hold of it.
EmitGlobalNoBatch(w) == [w EXCEPT !.o.nGlobal = @ + w.s.listeners]

\* if (_isTransaction) { _pendingEmit = true; return }; then the global listeners.
EmitGlobal(w) ==
    IF w.s.isTransaction THEN [w EXCEPT !.s.pendingEmit = TRUE]
    ELSE [w EXCEPT !.o.nGlobal = @ + w.s.listeners]

\* Steps 2 and 3 of _emit(changedKey): the watchers, which are handed
\* instance.get(changedKey), and then the key listeners.
NotifyKey(w, k) ==
    LET w1 == IF k \in w.s.watchers
              THEN [GetEff(w, k) EXCEPT !.o.nWatch[k] = @ + 1]
              ELSE w
    IN IF k \in w1.s.keyListeners THEN [w1 EXCEPT !.o.nKey[k] = @ + 1] ELSE w1

\* A faulty getter that reads the store for computed keys too: C6 does not
\* hold of it.
getterNoCache(w, k) == GetVal(w, k)

\* The getter handed to a selector (its value; depsFound is {SrcOf(c)}).
getter(w, k) == IF IsComputed(w.s, k) THEN w.s.computed[k].lastValue ELSE GetVal(w, k)

RECURSIVE EmitKey(_, _)
RECURSIVE UpdateDependents(_, _, _)
RECURSIVE updateComputed(_, _)

\* The selectors compute is called with.  chain: (get) => (get(src) || 0) + 1;
\* sum: (get) => (get('base') || 0) + (get(peer) || 0), peer the other
\* computed key; dyn: (get) => get('x') ? get('base') : 0.
Selectors == {"chain", "sum", "dyn"}

PeerOf(c) == IF c = L(1) THEN L(2) ELSE L(1)

NumOr0(v) == IF v.t = "number" THEN v.n ELSE 0

\* The keys the selector of c hands to its getter, in the order of the calls.
ReadsOf(w, c) ==
    CASE w.s.computed[c].sel = "chain" -> <<SrcOf(c)>>
      [] w.s.computed[c].sel = "sum" -> <<KBase, PeerOf(c)>>
      [] OTHER -> IF Falsy(getter(w, KX)) THEN <<KX>> ELSE <<KX, KBase>>

SelThrowsOf(w, c) ==
    w.s.computed[c].sel = "chain" /\ SelThrows(getter(w, SrcOf(c)))

SelValueOf(w, c) ==
    CASE w.s.computed[c].sel = "chain" -> SelResult(getter(w, SrcOf(c)))
      [] w.s.computed[c].sel = "sum" ->
           Num(NumOr0(getter(w, KBase)) + NumOr0(getter(w, PeerOf(c))))
      [] OTHER -> IF Falsy(getter(w, KX)) THEN Num(0) ELSE getter(w, KBase)

\* What the calls of the getter do besides returning a value: a key that is
\* not computed is read through instance.get.
RECURSIVE ReadEffects(_, _)
ReadEffects(w, keys) ==
    IF keys = <<>> THEN w
    ELSE ReadEffects(IF IsComputed(w.s, Head(keys)) THEN w ELSE GetEff(w, Head(keys)),
                     Tail(keys))

SeqSet(seq) == {seq[i] : i \in 1..Len(seq)}

\* The part of _updateComputed after the selector has returned newValue,
\* having read the keys found.
CommitComputed(w, c, newValue, found) ==
    LET comp == w.s.computed[c]
        w1 == [w EXCEPT !.s.computedDeps = SyncDeps(@, c, comp.deps, found),
                        !.s.computed[c].deps = found]
    IN IF isEqual(comp.lastValue, newValue) THEN w1
       ELSE EmitKey([w1 EXCEPT !.s.computed[c].lastValue = Freeze(newValue),
                               !.s.versions[c] = @ + 1], c)

\* _updateComputed(key).  The getter reads a computed key from the cache and
\* any other key through instance.get.  A selector that throws leaves through
\* every caller up to the first try/catch.
updateComputed(w, c) ==
    IF ~IsComputed(w.s, c) THEN w
    ELSE IF w.depth >= MaxStack THEN [w EXCEPT !.o.threw = TRUE, !.o.overflow = TRUE]
    ELSE LET w1 == [ReadEffects(w, ReadsOf(w, c)) EXCEPT !.depth = @ + 1]
         IN IF SelThrowsOf(w, c) THEN [w1 EXCEPT !.o.threw = TRUE, !.o.selErr = @ \cup {c}]
            ELSE [CommitComputed(w1, c, SelValueOf(w, c), SeqSet(ReadsOf(w, c)))
                     EXCEPT !.depth = w.depth]

\* A faulty loop that recomputes the first dependent only: C32 does not hold
\* of it.
UpdateFirst(w, k, done) ==
    IF Len(w.s.computedDeps[k]) = 0 \/ done # {} THEN w
    ELSE updateComputed(w, w.s.computedDeps[k][1])

\* for (const dependentKey of dependents) _updateComputed(dependentKey): the
\* live iteration of a Set, `done` the dependents already visited.
UpdateDependents(w, k, done) ==
    LET todo == SelectSeq(w.s.computedDeps[k], LAMBDA c : c \notin done)
    IN IF Len(todo) = 0 THEN w
       ELSE LET w1 == updateComputed(w, todo[1])
            IN IF w1.o.threw THEN w1
               ELSE UpdateDependents(w1, k, done \cup {todo[1]})

\* _emit(changedKey)
EmitKey(w, k) ==
    LET w1 == UpdateDependents(w, k, {})
    IN IF w1.o.threw THEN w1 ELSE EmitGlobal(NotifyKey(w1, k))

(***************************************************************************)
(* The public operations of the store instance.                            *)
(***************************************************************************)
Return(w, v) == IF w.o.threw THEN w ELSE [w EXCEPT !.o.ret = v]

Bool(b) == [t |-> "boolean", n |-> IF b THEN 1 ELSE 0, items |-> <<>>]

\* The commit branch of set: store, version, disk queue and timer, onSet, emit.
CommitSet(w, key, frozen, persist) ==
    LET w1 == [w EXCEPT !.s.store[key] = frozen,
                        !.s.versions[key] = @ + 1,
                        !.s.diskQueue[key] =
                            IF persist
                            THEN [value |-> frozen, persist |-> TRUE,
                                  encrypted |-> w.o.encrypted]
                            ELSE @,
                        !.s.diskTimer = @ \/ persist,
                        !.s.snapshot = NoSnapshot,
                        !.o.committed = TRUE]
    IN Return(EmitKey(_audit(runHook(w1, "onSet", key), "set", key, TRUE), key), Bool(TRUE))

\* set(key, value, {persist})
Set(w, key, val, persist) ==
    IF ~validateKey(key) THEN Return(w, Bool(FALSE))
    ELSE IF ~hasPermission(w.s.accessRules, key, "write", w.s.userId)
         THEN Return(_audit(w, "set", key, FALSE), Bool(FALSE))
    ELSE LET oldVal == StoreGet(w.s, key)
             sani == sanitizeValue(val)
             w1 == runHook(w, "onBeforeSet", key)
             frozen == Freeze(sani)
         IN IF ~isEqual(oldVal, frozen) THEN CommitSet(w1, key, frozen, persist)
            ELSE Return(w1, Bool(FALSE))

\* get(key)
Get(w, key) == Return(GetEff(w, key), GetVal(w, key))

\* A faulty remove that clears the storage record before it asks the access
\* gate: C4 does not hold of it.
RemoveLateGate(w, key) ==
    IF ~hasPermission(w.s.accessRules, key, "delete", w.s.userId)
    THEN Return(_audit([w EXCEPT !.s.storage[key] = NoRecord], "delete", key, FALSE),
                Bool(FALSE))
    ELSE LET deleted == w.s.store[key] # Absent
             w1 == IF deleted
                   THEN [runHook([w EXCEPT !.s.store[key] = Absent], "onRemove", key)
                            EXCEPT !.s.snapshot = NoSnapshot]
                   ELSE w
             w2 == [w1 EXCEPT !.s.versions[key] = @ + 1,
                              !.s.storage[key] = NoRecord,
                              !.o.committed = TRUE]
         IN Return(EmitKey(_audit(w2, "delete", key, TRUE), key), Bool(deleted))

\* remove(key)
Remove(w, key) ==
    IF ~hasPermission(w.s.accessRules, key, "delete", w.s.userId)
    THEN Return(_audit(w, "delete", key, FALSE), Bool(FALSE))
    ELSE LET deleted == w.s.store[key] # Absent
             w1 == IF deleted
                   THEN [runHook([w EXCEPT !.s.store[key] = Absent], "onRemove", key)
                            EXCEPT !.s.snapshot = NoSnapshot]
                   ELSE w
             w2 == [w1 EXCEPT !.s.versions[key] = @ + 1,
                              !.s.storage[key] = NoRecord,
                              !.o.committed = TRUE]
         IN Return(EmitKey(_audit(w2, "delete", key, TRUE), key), Bool(deleted))

\* compute(key, selector): registers and evaluates on the first call; its
\* try/catch reports an error of that first evaluation and returns null.
ComputeWith(w, c, sel) ==
    IF w.s.computed[c].reg THEN Return(w, w.s.computed[c].lastValue)
    ELSE LET w1 == updateComputed(
                     [w EXCEPT !.s.computed[c] = [NoComp EXCEPT !.reg = TRUE, !.sel = sel]], c)
         IN IF w1.o.threw
            THEN Return([w1 EXCEPT !.o.threw = FALSE,
                                   !.o.errors = Append(@, <<"compute", "", "", c>>)], Null)
            ELSE Return(w1, w1.s.computed[c].lastValue)

\* compute(key, selector) with the selector of the chain.
Compute(w, c) == ComputeWith(w, c, "chain")

KStart == <<"START", 0>>
KEnd == <<"END", 0>>

\* transaction(fn) up to the call of fn ...
TxEnter(w) == runHook([w EXCEPT !.s.isTransaction = TRUE], "onTransaction", KStart)

\* A faulty transaction without the finally block: when fn throws, nothing
\* runs after it.
TxThrowNoFinally(w) == [w EXCEPT !.o.threw = TRUE]

\* A faulty end of transaction that runs no hook: C21 does not hold of it.
TxLeaveSilent(w) ==
    LET w1 == [w EXCEPT !.s.isTransaction = FALSE]
    IN IF w1.s.pendingEmit THEN EmitGlobal([w1 EXCEPT !.s.pendingEmit = FALSE]) ELSE w1

\* ... and its finally block, once fn has returned or thrown.
TxLeave(w) ==
    LET w1 == runHook([w EXCEPT !.s.isTransaction = FALSE], "onTransaction", KEnd)
    IN IF w1.s.pendingEmit THEN EmitGlobal([w1 EXCEPT !.s.pendingEmit = FALSE]) ELSE w1

\* _addPlugin -> Plugins.installPlugin
AddPlugin(w, p) ==
    LET w1 == [w EXCEPT !.s.plugins = IF \E i \in 1..Len(@) : @[i] = p THEN @ ELSE Append(@, p)]
    IN IF "onInstall" \notin PluginHooks(p) THEN w1
       ELSE IF <<p, "onInstall">> \in w.bad
       THEN [w1 EXCEPT !.o.hooks = Append(@, <<p, "onInstall", w.o.key>>),
                       !.o.errors = Append(@, <<"plugin:install", p, "", w.o.key>>)]
       ELSE [w1 EXCEPT !.o.hooks = Append(@, <<p, "onInstall", w.o.key>>)]

\* destroy(): the timer and the disk queue are dropped, onDestroy runs (its
\* context has no key), then every map of the store is cleared.
Destroy(w) ==
    LET w1 == runHook([w EXCEPT !.s.diskTimer = FALSE,
                                !.s.diskQueue = [k \in SrcKeys |-> NoEntry]],
                      "onDestroy", <<"", 0>>)
    IN  [w1 EXCEPT !.s.listeners = 0,
                   !.s.keyListeners = {},
                   !.s.watchers = {},
                   !.s.computed = [c \in CompKeys |-> NoComp],
                   !.s.computedDeps = [k \in Keys |-> <<>>],
                   !.s.plugins = <<>>,
                   !.s.store = [k \in SrcKeys |-> Absent],
                   !.s.accessRules = <<>>,
                   !.s.versions = [k \in Keys |-> 0],
                   !.o.committed = TRUE]

\* Persistence.flushDisk, with no encryption: the whole state under the
\* namespace key, then one record per queued key, holding the queued value.
flushDisk(w) ==
    [w EXCEPT !.s.fullState = [written |-> TRUE, d |-> w.s.store],
              !.s.storage = [k \in SrcKeys |->
                                IF w.s.diskQueue[k].persist
                                THEN [v |-> IF w.s.versions[k] = 0 THEN 1 ELSE w.s.versions[k],
                                      d |-> w.s.diskQueue[k].value]
                                ELSE @[k]],
              !.s.diskQueue = [k \in SrcKeys |-> NoEntry]]

(***************************************************************************)
(* Calls on one store.  Each specification below draws the calls it makes  *)
(* from its own sets of keys, values and options.                          *)
(***************************************************************************)
KNone == <<"", 0>>

\* What the outermost transaction in progress (or just ended) has done:
\* per key the writes (set, remove) of its body, counted up to 2, those that
\* committed, those that committed and returned, the notifications; `other`
\* when the body made a call that is no write.
NoTx == [active |-> FALSE, done |-> FALSE, other |-> FALSE, threw |-> FALSE,
         nGlobalBody |-> 0, nGlobalEnd |-> 0,
         nKey |-> [k \in Keys |-> 0],
         writes |-> [k \in Keys |-> 0],
         commits |-> [k \in Keys |-> 0],
         returned |-> [k \in Keys |-> 0]]

NoPerm == [key |-> KNone, action |-> "read", userId |-> "u1", ret |-> FALSE]

(***************************************************************************)
(* The sync engine.  eng is the SyncEngine object, net the versions the    *)
(* remote server holds, cyc the sync() calls: the passes that are waiting  *)
(* for a response of the server, and the result that a call returned in    *)
(* the step just taken, if one did.                                        *)
(***************************************************************************)
SyncKeys == SrcKeys

Slots == {1, 2}

\* The values the application writes to a synced key, and what other
\* clients write to the server.
SyncValues(k) == IF k = KBase THEN {Num(1), Num(2)} ELSE {Num(1)}

RemoteKeys == {KBase}

RemoteValues == {Num(2)}

Resolutions == {"accept-local", "accept-remote", "merge", "discard"}

\* What the server does with a request: answer 2xx, answer non-2xx, or the
\* fetch rejects.
Responses == {"ok", "fail", "throw"}

\* The value a 'merge' resolution carries.
MergedValue == Num(0)

NoRemote == [version |-> 0, value |-> Absent]

NoChange == [key |-> KNone, value |-> Absent, version |-> 0]

\* type SyncStrategy, as far as the documentation describes it.
Strategies == {"last-write-wins", "server-wins", "client-wins"}

\* this.config of the engine, with strategy: config.strategy || 'last-write-wins'
NewEngine ==
    [strategy |-> "last-write-wins",
     pendingQueue |-> <<>>,
     remoteVersions |-> [k \in SyncKeys |-> NoRemote],
     isSyncing |-> FALSE,
     isOnline |-> TRUE,
     syncTimer |-> FALSE]

\* One call of sync() between two of its awaits: the snapshot pendingChanges,
\* the position of the for loop, the change _pushChange is sending and its
\* retries, and the lists of the result.  exhausted: the keys whose push used
\* up its retries without a 2xx answer; requeued: the keys of the snapshot
\* that queueChange was called for before the pass was through with them,
\* touched: those it was called for after; log: what the for loop did with
\* each change; pushed: the keys a push request was sent for; thrown: the
\* keys whose reconciliation threw.
IdlePass ==
    [pc |-> "idle", changes |-> <<>>, idx |-> 0, push |-> NoChange, retries |-> 0,
     syncedKeys |-> <<>>, conflicts |-> <<>>, errors |-> <<>>,
     exhausted |-> {}, requeued |-> {},
     log |-> <<>>, pushed |-> {}, touched |-> {}, thrown |-> {}]

NoResult ==
    [kind |-> "none", success |-> FALSE, syncedKeys |-> <<>>, conflicts |-> <<>>,
     errors |-> <<>>, pending |-> {}, exhausted |-> {}, requeued |-> {},
     log |-> <<>>, pushed |-> {}, touched |-> {}, thrown |-> {},
     snapshot |-> {}, onSync |-> FALSE]

InProgress == <<"Sync already in progress">>

Rejected == [NoResult EXCEPT !.kind = "rejected", !.errors = <<InProgress>>]

NoCycles == [pass |-> [c \in Slots |-> IdlePass], last |-> NoResult]

NewServer == [k \in SyncKeys |-> NoRemote]

\* The variables of the sync engine, which the store specifications leave alone.
syncVars == <<eng, cyc, net>>

(***************************************************************************)
(* Hydration.  hyd is the storage as createStore finds it, the version and *)
(* migrate function of the config, and what hydrateStore has done.         *)
(***************************************************************************)
MaxSchema == 2
HydrateTime == 2

\* The string "100" of the migration scenario, and Number(x) || NaN.
Str100 == Str(100)

NaN == [t |-> "NaN", n |-> 0, items |-> <<>>]

\* JSON.stringify(v) of an object v, a string that starts with "{", and
\* JSON.parse of such a text.
JsonText(v) == [t |-> "json", n |-> 0, items |-> v.items]

IsJsonText(d) == d.t = "json"

ParseJson(d) == Obj(d.items)

\* What Security.encrypt made of an object v, Security.decrypt of it, and a
\* cipher text decrypt throws on.
Cipher(v) == [t |-> "cipher", n |-> 0, items |-> v.items]

decrypt(d) == Obj(d.items)

BadCipher == [t |-> "cipher", n |-> 1, items |-> <<>>]

\* A record of the storage. kind none: no item under the key; garbage: a text
\* JSON.parse throws on; meta: {_sys_v: sysv, e (0: null), d, _enc: d is a
\* cipher text}.
NoDisk == [kind |-> "none", sysv |-> 0, e |-> 0, d |-> Absent]

Garbage == [kind |-> "garbage", sysv |-> 0, e |-> 0, d |-> Absent]

DiskRecords(k) ==
    {NoDisk, Garbage}
    \cup [kind : {"meta"}, sysv : 1..MaxSchema, e : {0, 1, HydrateTime}, d : {Str100}]
    \cup [kind : {"meta"}, sysv : 1..MaxSchema, e : {0},
          d : IF k = KBase THEN {JsonText(Obj(<<1>>)), Cipher(Obj(<<1>>)), BadCipher}
              ELSE {BadCipher}]

\* config.migrate: not configured; the two-step function of the migration
\* scenario; one that throws; one that returns null.
Migrations == {"none", "steps", "throws", "null"}

\* storage.key(i), i = 0, 1, ...
KeyOrder == <<KBase, KX>>

NoPersisted == [k \in SrcKeys |-> Absent]

NoHydration ==
    [phase |-> "none", disk |-> [k \in SrcKeys |-> NoDisk],
     found |-> [k \in SrcKeys |-> NoDisk], version |-> 0, migrate |-> "none",
     ready |-> TRUE, idx |-> 0, savedV |-> 0, persisted |-> NoPersisted,
     calls |-> <<>>, errors |-> <<>>, final |-> NoPersisted, committed |-> FALSE]

\* A store created with a storage adapter, before createStore has run.
NewHydration(disk, version, migrate) ==
    [NoHydration EXCEPT !.phase = "new", !.disk = disk, !.found = disk,
                        !.version = version, !.migrate = migrate, !.ready = FALSE]

(***************************************************************************)
(* Timers.  clk is the time, the timers that are pending (the time each is *)
(* due), _diskTimer (the handle of the timer armed last: the time it is    *)
(* due, 0 for null), and the times of the committed persisting writes and  *)
(* of the flushes so far.                                                  *)
(***************************************************************************)
debounceTime == 2
MaxTime == 6

NoClock == [now |-> 0, timers |-> <<>>, diskTimer |-> 0, writes |-> {}, flushes |-> <<>>]

(***************************************************************************)
(* Several stores.  sec holds, for each createStore call, the maps its     *)
(* closure owns: _accessRules, _regexCache, _consents, _methodNamespace.   *)
(***************************************************************************)
MaxConsents == 2

Stores == {"A", "B"}

Purposes == {"marketing"}

\* The functions a plugin registers as a method; NoMethod: not registered.
Methods == {"fromA", "fromB"}

NoMethod == "none"

NewInstance ==
    [accessRules |-> <<>>, regexCache |-> {},
     consents |-> [u \in Users |-> <<>>],
     methodNamespace |-> [p \in PluginNames |-> NoMethod]]

NewStores == [x \in Stores |-> NewInstance]

\* The closure of undoRedoPlugin before it is installed: _history, _cursor,
\* _isRestoring.
NoHistory == [history |-> <<>>, cursor |-> -1, isRestoring |-> FALSE]

\* The tabs of the browser, each with its store and the messages the
\* broadcast channel has not delivered to it yet.
Tabs == {"t1", "t2"}

NewTab == [s |-> NewStore(<<>>), isSyncing |-> FALSE, inbox |-> <<>>]

NoTabs == [t \in Tabs |-> NewTab]

\* The cloud-sync plugin before its first sync(), and its adapter: the
\* version of each key at the last scan that found it changed, the value and
\* the version the adapter saved last, the adapter.save calls in flight, the
\* status of the last sync() that returned.
NoCloud == [lastSyncedVersions |-> [k \in SrcKeys |-> 0],
            saved |-> [k \in SrcKeys |-> NoRecord],
            pending |-> <<>>,
            status |-> "none"]

InitCore ==
    /\ cloud = NoCloud
    /\ undo = NoHistory
    /\ sec = NewStores
    /\ clk = NoClock
    /\ out = NewOut("create", KNone, Undef)
    /\ txDepth = 0
    /\ txLog = NoTx
    /\ perm = NoPerm
    /\ eng = NewEngine
    /\ cyc = NoCycles
    /\ net = NewServer

InitBase ==
    /\ InitCore
    /\ tabs = NoTabs

InitRest ==
    /\ InitBase
    /\ hyd = NoHydration

WithinBounds(w) == \A k \in Keys : w.s.versions[k] <= MaxVersion

\* What the body of the running outermost transaction has done so far.
IsWrite(o) == o.op \in {"set", "remove"}

TxNote(w) ==
    IF txDepth = 0 THEN NoTx
    ELSE [txLog EXCEPT
            !.threw = @ \/ w.o.threw,
            !.other = @ \/ ~IsWrite(w.o),
            !.nGlobalBody = @ + w.o.nGlobal,
            !.nKey = [k \in Keys |-> @[k] + w.o.nKey[k]],
            !.writes = [k \in Keys |->
                IF IsWrite(w.o) /\ w.o.key = k /\ @[k] < 2 THEN @[k] + 1 ELSE @[k]],
            !.commits = [k \in Keys |->
                @[k] + IF IsWrite(w.o) /\ w.o.committed /\ w.o.key = k THEN 1 ELSE 0],
            !.returned = [k \in Keys |->
                @[k] + IF IsWrite(w.o) /\ w.o.committed /\ ~w.o.threw /\ w.o.key = k
                       THEN 1 ELSE 0]]

\* A store operation has run to its end (normally or by throwing).
Done(w) ==
    /\ WithinBounds(w)
    /\ st' = w.s
    /\ out' = w.o
    /\ txLog' = TxNote(w)
    /\ UNCHANGED <<txDepth, perm, syncVars, hyd, clk, sec, undo, tabs, cloud>>

SetCall(keys, values, persists, bads) ==
    \E k \in keys, v \in values, persist \in persists, bad \in bads :
        Done(Set(Work(st, "set", k, v, bad), k, v, persist))

GetCall(keys) ==
    \E k \in keys : Done(Get(Work(st, "get", k, Undef, {}), k))

RemoveCall(keys) ==
    \E k \in keys : Done(Remove(Work(st, "remove", k, Undef, {}), k))

ComputeCall(keys) ==
    \E c \in keys : Done(Compute(Work(st, "compute", c, Undef, {}), c))

AddPluginCall(names) ==
    \E p \in names : Done(AddPlugin(Work(st, "addPlugin", KNone, Undef, {}), p))

\* transaction(fn) is entered: the calls fn makes are the steps that follow.
TransactionBegin ==
    /\ txDepth < MaxTxDepth
    /\ LET w == TxEnter(Work(st, "txBegin", KNone, Undef, {}))
       IN /\ st' = w.s
          /\ out' = w.o
          /\ txLog' = IF txDepth = 0 THEN [NoTx EXCEPT !.active = TRUE]
                      ELSE [txLog EXCEPT !.other = TRUE]
    /\ txDepth' = txDepth + 1
    /\ UNCHANGED <<perm, syncVars, hyd, clk, sec, undo, tabs, cloud>>

\* fn has returned or thrown: the finally block of transaction.
TransactionEnd ==
    /\ txDepth > 0
    /\ LET w == TxLeave(Work(st, "txEnd", KNone, Undef, {}))
       IN /\ st' = w.s
          /\ out' = w.o
          /\ txLog' = IF txDepth = 1
                      THEN [txLog EXCEPT !.active = FALSE, !.done = TRUE,
                                         !.nGlobalEnd = w.o.nGlobal]
                      ELSE [txLog EXCEPT !.nGlobalBody = @ + w.o.nGlobal]
    /\ txDepth' = txDepth - 1
    /\ UNCHANGED <<perm, syncVars, hyd, clk, sec, undo, tabs, cloud>>

\* The debounce timer armed by a persisting set fires: _flushDisk.
FlushTimer ==
    /\ st.diskTimer
    /\ txDepth = 0
    /\ LET w == flushDisk(Work(st, "flush", KNone, Undef, {}))
       IN /\ st' = [w.s EXCEPT !.diskTimer = FALSE]
          /\ out' = w.o
    /\ txLog' = NoTx
    /\ UNCHANGED <<txDepth, perm, syncVars, hyd, clk, sec, undo, tabs, cloud>>

(***************************************************************************)
(* SpecStore: sets, gets and removes on a store with plugins and no rules. *)
(***************************************************************************)
Values == {Num(1), DirtyStr, Arr(<<>>), Obj(<<>>), Obj(<<1>>)}

\* The callbacks that throw during one call: none, or one hook of one plugin.
BadSets == {{}, {<<"p1", "onBeforeSet">>}, {<<"p2", "onSet">>}}

StoreSet == SetCall(SrcKeys, Values, BOOLEAN, BadSets)
StoreSetBadKey == SetCall({KBad}, {Num(1)}, {FALSE}, {{}})
StoreGet_ == GetCall(SrcKeys)
StoreRemove == RemoveCall(SrcKeys)

\* The store after createStore() and _addPlugin(p1), _addPlugin(p2).
InitStore ==
    /\ InitRest
    /\ st = AddPlugin(AddPlugin(Work(NewStore(<<>>), "create", KNone, Undef, {}), "p1"), "p2").s

NextStore ==
    \/ StoreSet
    \/ StoreSetBadKey
    \/ StoreGet_
    \/ StoreRemove

SpecStore == InitStore /\ [][NextStore]_vars

(***************************************************************************)
(* SpecGate: a store whose access rules are added while it holds values.   *)
(***************************************************************************)
GateValues == {Num(0), Num(1)}

\* The rules addAccessRule is called with.
GateRules ==
    { [pat |-> PatRegexBase, perms |-> {"read"}],
      [pat |-> PatRegexAll, perms |-> {"read", "write"}] }

GateSet == SetCall(SrcKeys, GateValues, {TRUE}, {{}})
GateGet == GetCall(SrcKeys)
GateRemove == RemoveCall(SrcKeys)
GateCompute == ComputeCall({L(1)})

GateAddRule ==
    /\ Len(st.accessRules) < MaxRules
    /\ \E r \in GateRules :
        /\ st' = [st EXCEPT !.accessRules = addAccessRule(@, r.pat, r.perms)]
        /\ out' = NewOut("addAccessRule", KNone, Undef)
    /\ UNCHANGED <<txDepth, txLog, perm, syncVars, hyd, clk, sec, undo, tabs, cloud>>

\* The store after createStore() and _addPlugin(p1).
InitGate ==
    /\ InitRest
    /\ st = AddPlugin(Work(NewStore(<<>>), "create", KNone, Undef, {}), "p1").s

NextGate ==
    \/ GateSet
    \/ GateGet
    \/ GateRemove
    \/ GateCompute
    \/ GateAddRule
    \/ FlushTimer

SpecGate == InitGate /\ [][NextGate]_vars

(***************************************************************************)
(* SpecTx: transactions.                                                   *)
(***************************************************************************)
TxValues == {Num(1), Obj(<<1>>)}

TxSet == SetCall(SrcKeys, TxValues, {FALSE}, {{}})
TxRemove == RemoveCall(SrcKeys)

\* The store after createStore(), _addPlugin(p1) and compute('l1', selector).
InitTx ==
    /\ InitRest
    /\ st = Compute(AddPlugin(Work(NewStore(<<>>), "create", KNone, Undef, {}), "p1"), L(1)).s

NextTx ==
    \/ TxSet
    \/ TxRemove
    \/ TransactionBegin
    \/ TransactionEnd

SpecTx == InitTx /\ [][NextTx]_vars

(***************************************************************************)
(* SpecComputed: a chain of computed keys over the key base.               *)
(***************************************************************************)
BaseValues == {Num(i) : i \in 0..MaxNum} \cup {Obj(<<1>>)}

CompSet == SetCall({KBase}, BaseValues, {FALSE}, {{}})
CompRemove == RemoveCall({KBase})
CompCompute == ComputeCall(CompKeys)

InitComputed ==
    /\ InitRest
    /\ st = NewStore(<<>>)

NextComputed ==
    \/ CompSet
    \/ CompRemove
    \/ CompCompute

SpecComputed == InitComputed /\ [][NextComputed]_vars

(***************************************************************************)
(* SpecAccess: addAccessRule and hasPermission on one store.               *)
(***************************************************************************)
AccessAddRule ==
    \E pat \in Patterns, perms \in PermSets :
        /\ Len(addAccessRule(st.accessRules, pat, perms)) <= MaxRules
        /\ st' = [st EXCEPT !.accessRules = addAccessRule(@, pat, perms)]
        /\ out' = NewOut("addAccessRule", KNone, Undef)
        /\ perm' = NoPerm
        /\ UNCHANGED <<txDepth, txLog, syncVars, hyd, clk, sec, undo, tabs, cloud>>

\* instance.hasPermission(key, action, userId)
AccessCheck ==
    \E k \in Keys \cup {KBad}, a \in Permissions, u \in Users :
        /\ perm' = [key |-> k, action |-> a, userId |-> u,
                    ret |-> hasPermission(st.accessRules, k, a, u)]
        /\ out' = NewOut("hasPermission", k, Undef)
        /\ UNCHANGED <<st, txDepth, txLog, syncVars, hyd, clk, sec, undo, tabs, cloud>>

InitAccess ==
    /\ InitRest
    /\ st = NewStore(<<>>)

NextAccess ==
    \/ AccessAddRule
    \/ AccessCheck

SpecAccess == InitAccess /\ [][NextAccess]_vars

(***************************************************************************)
(* SyncEngine: queueChange, sync, _fetchRemoteVersions, _pushChange,       *)
(* _resolveConflict.  x is the engine e, the store s, the server n, the    *)
(* pass p of the running call and the result r of the last call to end.    *)
(***************************************************************************)
QueueKeys(q) == {q[i].key : i \in 1..Len(q)}

\* Map.set: an existing key keeps its place, a new one goes last.
QueueSet(q, ch) ==
    IF ch.key \in QueueKeys(q)
    THEN [i \in 1..Len(q) |-> IF q[i].key = ch.key THEN ch ELSE q[i]]
    ELSE Append(q, ch)

RECURSIVE QueueDelete(_, _)
QueueDelete(q, key) ==
    IF q = <<>> THEN <<>>
    ELSE IF Head(q).key = key THEN Tail(q)
    ELSE <<Head(q)>> \o QueueDelete(Tail(q), key)

Max(a, b) == IF a >= b THEN a ELSE b

\* queueChange(key, value)
queueChange(e, s, key, value) ==
    [e EXCEPT !.pendingQueue =
                  QueueSet(@, [key |-> key, value |-> value,
                               version |-> IF VersionOf(s, key) = 0 THEN 1
                                           ELSE VersionOf(s, key)]),
              !.syncTimer = TRUE]

\* A faulty sync() without the guard: C10 does not hold of it.
SyncGuardOff(e) == FALSE

\* if (this._isSyncing) return { success: false, ... }
SyncGuard(e) == e.isSyncing

\* The return of sync() and its finally block.
Finish(x) ==
    [x EXCEPT !.r = [kind |-> "done",
                     success |-> x.p.errors = <<>>,
                     syncedKeys |-> x.p.syncedKeys,
                     conflicts |-> x.p.conflicts,
                     errors |-> x.p.errors,
                     pending |-> QueueKeys(x.e.pendingQueue),
                     exhausted |-> x.p.exhausted,
                     requeued |-> x.p.requeued,
                     log |-> x.p.log,
                     pushed |-> x.p.pushed,
                     touched |-> x.p.touched,
                     thrown |-> x.p.thrown,
                     snapshot |-> QueueKeys(x.p.changes),
                     onSync |-> TRUE],
              !.e.isSyncing = FALSE,
              !.p = IdlePass]

\* _pushChange(ch) up to its first fetch.
StartPush(x, ch) ==
    [x EXCEPT !.p.pc = "push", !.p.push = ch, !.p.retries = 0,
              !.p.pushed = @ \cup {ch.key}]

\* syncedKeys.push(change.key); this.pendingQueue.delete(change.key)
Synced(x) ==
    LET key == x.p.changes[x.p.idx].key
    IN [x EXCEPT !.p.syncedKeys = Append(@, key),
                 !.e.pendingQueue = QueueDelete(@, key),
                 !.p.push = NoChange,
                 !.p.retries = 0,
                 !.p.idx = @ + 1]

\* A faulty catch that gives up the rest of the cycle: C13 does not hold of it.
FailedAbort(x) ==
    LET key == x.p.changes[x.p.idx].key
    IN [x EXCEPT !.p.errors = Append(@, <<"Failed to sync", key>>),
                 !.p.push = NoChange,
                 !.p.retries = 0,
                 !.p.idx = Len(x.p.changes) + 1]

\* catch (err) { errors.push(`Failed to sync "${change.key}": ...`) }
Failed(x) ==
    LET key == x.p.changes[x.p.idx].key
    IN [x EXCEPT !.p.errors = Append(@, <<"Failed to sync", key>>),
                 !.p.push = NoChange,
                 !.p.retries = 0,
                 !.p.idx = @ + 1]

\* A faulty resolution that leaves the store alone: C12 does not hold of it.
StoreSetSkip(x, key, value) == x

\* store.set(key, value) as _resolveConflict calls it.
StoreSetBy(x, key, value) ==
    LET w == Set(Work(x.s, "set", key, value, {}), key, value, FALSE)
    IN [x EXCEPT !.s = w.s]

\* The for loop of sync() from change idx on, up to the next fetch of
\* _pushChange or to the end; res is what config.onConflict answers.
\* A faulty comparison that lets an equal remote version through: C11 does
\* not hold of it.
IsConflictStrict(remote, change) == remote.version > change.version

\* else if (remoteVersion.version >= change.version)
IsConflict(remote, change) == remote.version >= change.version

\* The branch of the for loop a change takes.
Classify(remote, change) ==
    IF remote = NoRemote THEN "new"
    ELSE IF IsConflict(remote, change) THEN "conflict"
    ELSE "newer"

\* const conflict: ConflictInfo = { ... }
ConflictInfo(change, remote) ==
    [key |-> change.key, localValue |-> change.value, remoteValue |-> remote.value,
     localVersion |-> change.version, remoteVersion |-> remote.version]

\* What the loop did with a change: the remote version it knew, the branch it
\* took and, in a conflict, what config.onConflict answered.
Logged(x, change, remote, res) ==
    [x EXCEPT !.p.log = Append(@, [change |-> change, remote |-> remote,
                                   class |-> Classify(remote, change),
                                   res |-> IF Classify(remote, change) = "conflict"
                                           THEN res ELSE "none"])]

\* A faulty accept-local that pushes the change with the version it has.
KeepVersion(change, remote) == change

\* _resolveConflict, case 'accept-local': what is pushed.
AcceptLocal(change, remote) == [change EXCEPT !.version = remote.version + 1]

RECURSIVE ProcessChanges(_, _)
ProcessChanges(x, res) ==
    IF x.p.idx > Len(x.p.changes) THEN Finish(x)
    ELSE LET change == x.p.changes[x.p.idx]
             remote == x.e.remoteVersions[change.key]
             x0 == Logged(x, change, remote, res)
         IN IF Classify(remote, change) = "new" THEN StartPush(x0, change)
            ELSE IF Classify(remote, change) = "conflict"
            THEN LET x1 == [x0 EXCEPT !.p.conflicts =
                                          Append(@, ConflictInfo(change, remote))]
                 IN CASE res = "accept-local" ->
                           StartPush(x1, AcceptLocal(change, remote))
                      [] res = "accept-remote" ->
                           ProcessChanges(Synced(StoreSetBy(x1, change.key, remote.value)), res)
                      [] res = "merge" ->
                           StartPush(StoreSetBy(x1, change.key, MergedValue),
                                     [key |-> change.key, value |-> MergedValue,
                                      version |-> Max(change.version, remote.version) + 1])
                      [] OTHER -> ProcessChanges(Synced(x1), res)
            ELSE StartPush(x0, change)

\* _pushChange after the answer to its fetch.
PushAnswer(x, resp, res) ==
    LET ch == x.p.push
        retries == x.p.retries + 1
    IN CASE resp = "ok" ->
              ProcessChanges(
                  Synced([x EXCEPT !.n[ch.key] = [version |-> ch.version, value |-> ch.value],
                                   !.e.remoteVersions[ch.key] =
                                       [version |-> ch.version, value |-> ch.value]]), res)
         [] resp = "fail" ->
              IF retries < maxRetries THEN [x EXCEPT !.p.retries = retries]
              ELSE ProcessChanges(Synced([x EXCEPT !.p.exhausted = @ \cup {ch.key}]), res)
         [] OTHER ->
              IF retries >= maxRetries
              THEN ProcessChanges(Failed([x EXCEPT !.p.exhausted = @ \cup {ch.key},
                                                   !.p.thrown = @ \cup {ch.key}]), res)
              ELSE [x EXCEPT !.p.retries = retries]

\* _fetchRemoteVersions after the answer to its fetch, then the for loop.
VersionsAnswer(x, resp, res) ==
    LET asked == {x.p.changes[i].key : i \in 1..Len(x.p.changes)}
        x1 == IF resp = "ok"
              THEN [x EXCEPT !.e.remoteVersions =
                        [k \in SyncKeys |-> IF k \in asked /\ x.n[k] # NoRemote
                                            THEN x.n[k] ELSE @[k]]]
              ELSE x
    IN ProcessChanges([x1 EXCEPT !.p.idx = 1], res)

\* sync() up to its first await.
SyncBegin(x) ==
    IF SyncGuard(x.e) THEN [x EXCEPT !.r = Rejected]
    ELSE IF x.e.pendingQueue = <<>>
    THEN [x EXCEPT !.r = [NoResult EXCEPT !.kind = "done", !.success = TRUE],
                   !.e.isSyncing = FALSE]
    ELSE [x EXCEPT !.e.isSyncing = TRUE,
                   !.p = [IdlePass EXCEPT !.pc = "fetch", !.changes = x.e.pendingQueue]]

IdleSlots == {c \in Slots : cyc.pass[c].pc = "idle"}

FreeSlot == CHOOSE c \in IdleSlots : \A d \in IdleSlots : c <= d

SyncWork(e, c) == [e |-> e, s |-> st, n |-> net, p |-> cyc.pass[c], r |-> NoResult]

SyncBounds(x) ==
    /\ \A k \in Keys : x.s.versions[k] <= MaxVersion
    /\ \A k \in SyncKeys : x.n[k].version <= MaxVersion + 1

SyncDone(x, c) ==
    /\ SyncBounds(x)
    /\ st' = x.s
    /\ eng' = x.e
    /\ net' = x.n
    /\ cyc' = [pass |-> [cyc.pass EXCEPT ![c] = x.p], last |-> x.r]
    /\ out' = NewOut("sync", KNone, Undef)
    /\ txLog' = NoTx
    /\ UNCHANGED <<txDepth, perm, hyd, clk, sec, undo, tabs, cloud>>

\* flush(), or sync() called by the application.
Flush ==
    /\ IdleSlots # {}
    /\ SyncDone(SyncBegin(SyncWork(eng, FreeSlot)), FreeSlot)

\* The debounce timer of queueChange fires.
SyncTimerFire ==
    /\ eng.syncTimer
    /\ IdleSlots # {}
    /\ LET e == [eng EXCEPT !.syncTimer = FALSE]
       IN IF e.isOnline THEN SyncDone(SyncBegin(SyncWork(e, FreeSlot)), FreeSlot)
          ELSE SyncDone(SyncWork(e, FreeSlot), FreeSlot)

VersionsReturn ==
    \E c \in Slots, resp \in Responses, res \in Resolutions :
        /\ cyc.pass[c].pc = "fetch"
        /\ SyncDone(VersionsAnswer(SyncWork(eng, c), resp, res), c)

PushReturn ==
    \E c \in Slots, resp \in Responses, res \in Resolutions :
        /\ cyc.pass[c].pc = "push"
        /\ SyncDone(PushAnswer(SyncWork(eng, c), resp, res), c)

\* The setter of useSyncedState: set, then queueChange if the set committed.
SyncedSet ==
    \E k \in SyncKeys : \E v \in SyncValues(k) :
        LET w == Set(Work(st, "set", k, v, {}), k, v, FALSE)
            queued == w.o.ret = Bool(TRUE)
            busy(p) == /\ p.pc # "idle"
                       /\ \E i \in 1..Len(p.changes) : i >= p.idx /\ p.changes[i].key = k
            past(p) == /\ p.pc # "idle"
                       /\ \E i \in 1..Len(p.changes) : i < p.idx /\ p.changes[i].key = k
        IN /\ WithinBounds(w)
           /\ st' = w.s
           /\ out' = NewOut("sync", KNone, Undef)
           /\ eng' = IF queued THEN queueChange(eng, w.s, k, StoreGet(w.s, k)) ELSE eng
           /\ cyc' = [pass |-> [c \in Slots |->
                                    IF queued /\ busy(cyc.pass[c])
                                    THEN [cyc.pass[c] EXCEPT !.requeued = @ \cup {k}]
                                    ELSE IF queued /\ past(cyc.pass[c])
                                    THEN [cyc.pass[c] EXCEPT !.touched = @ \cup {k}]
                                    ELSE cyc.pass[c]],
                       last |-> NoResult]
           /\ txLog' = NoTx
           /\ UNCHANGED <<txDepth, perm, net, hyd, clk, sec, undo, tabs, cloud>>

\* Another client writes to the server.
RemoteWrite ==
    \E k \in RemoteKeys, v \in RemoteValues :
        /\ net[k].version < MaxVersion
        /\ net' = [net EXCEPT ![k] = [version |-> @.version + 1, value |-> v]]
        /\ cyc' = [cyc EXCEPT !.last = NoResult]
        /\ out' = NewOut("sync", KNone, Undef)
        /\ txLog' = NoTx
        /\ UNCHANGED <<st, txDepth, perm, eng, hyd, clk, sec, undo, tabs, cloud>>

InitSync ==
    /\ InitRest
    /\ st = NewStore(<<>>)

NextSync ==
    \/ SyncedSet
    \/ SyncTimerFire
    \/ Flush
    \/ VersionsReturn
    \/ PushReturn
    \/ RemoteWrite

SpecSync == InitSync /\ [][NextSync]_vars

\* onConflict: config.onConflict || (() => ({ action: 'accept-local' })): what
\* the engine asks when the configuration names a strategy and no handler.
DefaultOnConflict(e) == "accept-local"

StrategyVersionsReturn ==
    \E c \in Slots, resp \in Responses :
        /\ cyc.pass[c].pc = "fetch"
        /\ SyncDone(VersionsAnswer(SyncWork(eng, c), resp, DefaultOnConflict(eng)), c)

StrategyPushReturn ==
    \E c \in Slots, resp \in Responses :
        /\ cyc.pass[c].pc = "push"
        /\ SyncDone(PushAnswer(SyncWork(eng, c), resp, DefaultOnConflict(eng)), c)

InitStrategy ==
    /\ st = NewStore(<<>>)
    /\ sec = NewStores
    /\ clk = NoClock
    /\ out = NewOut("create", KNone, Undef)
    /\ txDepth = 0
    /\ txLog = NoTx
    /\ perm = NoPerm
    /\ \E s \in Strategies : eng = [NewEngine EXCEPT !.strategy = s]
    /\ cyc = NoCycles
    /\ net = NewServer
    /\ hyd = NoHydration
    /\ undo = NoHistory
    /\ tabs = NoTabs
    /\ cloud = NoCloud

NextStrategy ==
    \/ SyncedSet
    \/ SyncTimerFire
    \/ Flush
    \/ StrategyVersionsReturn
    \/ StrategyPushReturn
    \/ RemoteWrite

\* SpecStrategy: an engine configured with a strategy and no onConflict.
SpecStrategy == InitStrategy /\ [][NextStrategy]_vars

(***************************************************************************)
(* hydrateStore (core/persistence.ts) and the readiness of the store.  The *)
(* working value is a store operation's w with the hydration h added.      *)
(* hydrateStore is asynchronous: it runs until it awaits a decryption, and *)
(* goes on when the decryption has answered.                               *)
(***************************************************************************)
\* Number(v): of a number, of the string "100", of anything else of the model.
ToNumber(v) ==
    IF v.t = "number" THEN v ELSE IF v = Str100 THEN Num(100) ELSE NaN

Times10(v) == IF v = NaN THEN NaN ELSE Num(v.n * 10)

Plus50(v) == IF v = NaN THEN NaN ELSE Num(v.n + 50)

\* The migrate function of the migration scenario, on its key `value` (KBase):
\* from version 1 the value times 10, then from version 2 the value plus 50.
MigrateSteps(state, version) ==
    LET r1 == IF version = 1 THEN [state EXCEPT ![KBase] = Times10(ToNumber(@))]
              ELSE state
        v1 == IF version = 1 THEN 2 ELSE version
    IN  IF v1 = 2 THEN [r1 EXCEPT ![KBase] = Plus50(ToNumber(@))] ELSE r1

\* A faulty decision to migrate, taken also when the versions are equal: C15
\* does not hold of it.
ShouldMigrateEq(savedV, currentVersion, migrate) ==
    savedV <= currentVersion /\ migrate # "none"

\* savedV < currentVersion && config.migrate
ShouldMigrate(savedV, currentVersion, migrate) ==
    savedV < currentVersion /\ migrate # "none"

\* A faulty expiry test that lets every record through: C16 does not hold of it.
ExpiredNever(rec) == FALSE

\* meta.e && Date.now() > meta.e
Expired(rec) == rec.e # 0 /\ HydrateTime > rec.e

\* What hydration makes of the d of a record that is not encrypted.
Decode(d) == IF IsJsonText(d) THEN ParseJson(d) ELSE d

\* The catch of one record.
RecordFailed(w, k) ==
    [_audit(w, "hydrate", k, FALSE)
        EXCEPT !.h.errors = Append(@, [operation |-> "hydration", key |-> k])]

\* persisted[key] = d
Recovered(w, k, d) ==
    [_audit(w, "hydrate", k, TRUE) EXCEPT !.h.persisted[k] = d]

\* The catch around the whole of hydrateStore: emit is not reached.
HydrationFailed(w) ==
    [w EXCEPT !.h.errors = Append(@, [operation |-> "hydration", key |-> KNone]),
              !.h.phase = "done"]

\* Object.entries(final).forEach(store.set, versions.set), then emit(): the
\* store is ready and the global listeners are told.
CommitHydration(w, final) ==
    LET w1 == [w EXCEPT
                 !.s.store = [k \in SrcKeys |->
                                IF final[k] # Absent THEN Freeze(final[k]) ELSE @[k]],
                 !.s.versions = [k \in Keys |->
                                   IF k \in SrcKeys /\ final[k] # Absent THEN 1 ELSE @[k]],
                 !.s.snapshot = NoSnapshot,
                 !.h.final = final,
                 !.h.committed = TRUE,
                 !.h.ready = TRUE,
                 !.h.phase = "done"]
    IN  EmitGlobal(w1)

\* After the loop: migrate or not, then commit.
AfterLoop(w) ==
    LET h == w.h
        called == [w EXCEPT !.h.calls =
                      Append(@, [state |-> h.persisted, version |-> h.savedV])]
    IN  IF ~ShouldMigrate(h.savedV, h.version, h.migrate)
        THEN CommitHydration(w, h.persisted)
        ELSE IF h.migrate = "steps"
        THEN CommitHydration(called, MigrateSteps(h.persisted, h.savedV))
        ELSE HydrationFailed(called)

\* The loop over the items of the storage, from item i on, up to its end or
\* to the next decryption.
RECURSIVE Scan(_, _)
Scan(w, i) ==
    IF i > Len(KeyOrder) THEN AfterLoop(w)
    ELSE LET k == KeyOrder[i]
             rec == w.h.disk[k]
             w1 == [w EXCEPT !.h.savedV = Max(@, rec.sysv)]
         IN  IF rec.kind = "none" THEN Scan(w, i + 1)
             ELSE IF rec.kind = "garbage" THEN Scan(RecordFailed(w, k), i + 1)
             ELSE IF Expired(rec) THEN Scan([w1 EXCEPT !.h.disk[k] = NoDisk], i + 1)
             ELSE IF rec.d.t = "cipher"
                  THEN [w1 EXCEPT !.h.phase = "await", !.h.idx = i]
             ELSE Scan(Recovered(w1, k, Decode(rec.d)), i + 1)

\* The decryption awaited at item idx answers.
Decrypted(w) ==
    LET k == KeyOrder[w.h.idx]
        d == w.h.disk[k].d
    IN  IF d = BadCipher THEN Scan(RecordFailed(w, k), w.h.idx + 1)
        ELSE Scan(Recovered(w, k, decrypt(d)), w.h.idx + 1)

HydrationWork ==
    [s |-> st, o |-> NewOut("hydrate", KNone, Undef), bad |-> {}, depth |-> 0, h |-> hyd]

HydrationDone(w) ==
    /\ st' = w.s
    /\ out' = w.o
    /\ hyd' = w.h
    /\ UNCHANGED <<txDepth, txLog, perm, syncVars, clk, sec, undo, tabs, cloud>>

\* createStore({storage, version, migrate}).
CreateStore ==
    /\ hyd.phase = "new"
    /\ HydrationDone(Scan(HydrationWork, 1))

DecryptReturn ==
    /\ hyd.phase = "await"
    /\ HydrationDone(Decrypted(HydrationWork))

\* store.get on the created store.
HydratedGet ==
    /\ hyd.phase \in {"await", "done"}
    /\ GetCall(SrcKeys)

\* store.list(), store.getSnapshot(): the entries of the store.
list(s) == s.store

Disks == {f \in [SrcKeys -> UNION {DiskRecords(k) : k \in SrcKeys}] :
            \A k \in SrcKeys : f[k] \in DiskRecords(k)}

InitHydrate ==
    /\ InitBase
    /\ st = NewStore(<<>>)
    /\ \E disk \in Disks, version \in 0..(MaxSchema + 1), migrate \in Migrations :
          hyd = NewHydration(disk, version, migrate)

NextHydrate ==
    \/ CreateStore
    \/ DecryptReturn
    \/ HydratedGet

SpecHydrate == InitHydrate /\ [][NextHydrate]_vars

\* store.set while hydration is waiting for a decryption: createStore has
\* returned the store, and nothing makes its caller wait for whenReady().
HydratedSet ==
    /\ hyd.phase = "await"
    /\ SetCall({KBase}, {Num(0), Num(1)}, {FALSE}, {{}})

NextHydrateWrites ==
    \/ CreateStore
    \/ DecryptReturn
    \/ HydratedGet
    \/ HydratedSet

\* SpecHydrateWrites: hydration with writes made before it has ended.
SpecHydrateWrites == InitHydrate /\ [][NextHydrateWrites]_vars

\* The event loop runs what is ready: createStore is called, and a decryption
\* that was started answers.
SpecHydrateFair == SpecHydrate /\ WF_vars(CreateStore) /\ WF_vars(DecryptReturn)

(***************************************************************************)
(* SpecDebounce: the flush timer of persisting writes, with time.  A timer *)
(* fires at the time it is due: time does not pass a due timer.            *)
(***************************************************************************)
\* The sequence without its first element equal to x, if it has one.
RECURSIVE RemoveFirst(_, _)
RemoveFirst(seq, x) ==
    IF seq = <<>> THEN <<>>
    ELSE IF Head(seq) = x THEN Tail(seq)
    ELSE <<Head(seq)>> \o RemoveFirst(Tail(seq), x)

\* A faulty arming that leaves the previous timer pending: C17 does not hold
\* of it.
clearTimeoutNoop(c, handle) == c

\* if (_diskTimer) clearTimeout(_diskTimer): a handle whose timer has fired
\* clears nothing.
clearTimeout(c, handle) ==
    IF handle = 0 THEN c ELSE [c EXCEPT !.timers = RemoveFirst(@, handle)]

\* _diskTimer = setTimeout(_flushDisk, delay)
setTimeout(c, delay) ==
    [c EXCEPT !.timers = Append(@, c.now + delay), !.diskTimer = c.now + delay]

\* What set does to the timer when it commits a persisting write.
Rearm(c) ==
    [setTimeout(clearTimeout(c, c.diskTimer), debounceTime)
        EXCEPT !.writes = @ \cup {c.now}]

DebounceValues(k) == IF k = KBase THEN {Num(0), Num(1)} ELSE {Num(1)}

\* set(key, value, {persist}) at the present time.
DebouncedSet ==
    \E k \in SrcKeys : \E v \in DebounceValues(k) : \E persist \in BOOLEAN :
        LET w == Set(Work(st, "set", k, v, {}), k, v, persist)
            c == IF w.o.committed /\ persist THEN Rearm(clk) ELSE clk
        IN  /\ WithinBounds(w)
            /\ st' = [w.s EXCEPT !.diskTimer = c.timers # <<>>]
            /\ out' = w.o
            /\ clk' = c
            /\ UNCHANGED <<txDepth, txLog, perm, syncVars, hyd, sec, undo, tabs, cloud>>

\* A pending timer is due: _flushDisk runs.
TimerFires ==
    \E i \in 1..Len(clk.timers) :
        /\ clk.timers[i] = clk.now
        /\ LET w == flushDisk(Work(st, "flush", KNone, Undef, {}))
               c == [clk EXCEPT !.timers = RemoveFirst(@, clk.now),
                                !.flushes = Append(@, clk.now)]
           IN  /\ st' = [w.s EXCEPT !.diskTimer = c.timers # <<>>]
               /\ out' = w.o
               /\ clk' = c
        /\ UNCHANGED <<txDepth, txLog, perm, syncVars, hyd, sec, undo, tabs, cloud>>

\* Time passes, but not past a timer that is due.
Tick ==
    /\ clk.now < MaxTime
    /\ \A i \in 1..Len(clk.timers) : clk.timers[i] > clk.now
    /\ clk' = [clk EXCEPT !.now = @ + 1]
    /\ out' = NewOut("tick", KNone, Undef)
    /\ UNCHANGED <<st, txDepth, txLog, perm, syncVars, hyd, sec, undo, tabs, cloud>>

InitDebounce ==
    /\ InitRest
    /\ st = NewStore(<<>>)

NextDebounce ==
    \/ DebouncedSet
    \/ TimerFires
    \/ Tick

SpecDebounce == InitDebounce /\ [][NextDebounce]_vars

(***************************************************************************)
(* The security methods of a store instance (part_024, core/security.ts).  *)
(***************************************************************************)
\* A faulty hasPermission loop that goes on after a match and lets the last
\* matching rule decide: C20 does not hold of it.
RECURSIVE CheckLastMatch(_, _, _, _, _, _)
CheckLastMatch(rules, r, i, key, action, userId) ==
    IF i > Len(rules) THEN r
    ELSE LET pat == rules[i].pat
             r1 == [r EXCEPT !.consulted = @ \cup {i},
                             !.cache = IF pat.kind = "regex" THEN @ \cup {pat} ELSE @]
         IN  IF pat.kind = "invalid" THEN CheckLastMatch(rules, r, i + 1, key, action, userId)
             ELSE IF Matches(pat, key, userId)
             THEN CheckLastMatch(rules,
                      [r1 EXCEPT !.ret = action \in rules[i].perms \/ "admin" \in rules[i].perms],
                      i + 1, key, action, userId)
             ELSE CheckLastMatch(rules, r1, i + 1, key, action, userId)

\* The loop of instance.hasPermission from rule i on.  r is the answer so
\* far: ret, the regex cache, and the rules whose pattern was evaluated.  A
\* string that is no regular expression throws in new RegExp and is skipped;
\* a regular expression is compiled once and cached.
RECURSIVE CheckFrom(_, _, _, _, _, _)
CheckFrom(rules, r, i, key, action, userId) ==
    IF i > Len(rules) THEN r
    ELSE LET pat == rules[i].pat
             r1 == [r EXCEPT !.consulted = @ \cup {i},
                             !.cache = IF pat.kind = "regex" THEN @ \cup {pat} ELSE @]
         IN  IF pat.kind = "invalid" THEN CheckFrom(rules, r, i + 1, key, action, userId)
             ELSE IF Matches(pat, key, userId)
             THEN [r1 EXCEPT !.ret = action \in rules[i].perms \/ "admin" \in rules[i].perms]
             ELSE CheckFrom(rules, r1, i + 1, key, action, userId)

\* instance.hasPermission(key, action, userId)
instanceHasPermission(c, key, action, userId) ==
    IF Len(c.accessRules) = 0
    THEN [ret |-> TRUE, cache |-> c.regexCache, consulted |-> {}]
    ELSE CheckFrom(c.accessRules,
                   [ret |-> FALSE, cache |-> c.regexCache, consulted |-> {}],
                   1, key, action, userId)

\* Security.recordConsent: a record {purpose, granted} is pushed to the
\* user's list (its id and timestamp are left out).
recordConsent(consents, userId, purpose, granted) ==
    [consents EXCEPT ![userId] = Append(@, [purpose |-> purpose, granted |-> granted])]

\* Security.revokeConsent
revokeConsent(consents, userId, purpose) ==
    recordConsent(consents, userId, purpose, FALSE)

\* Security.hasConsent: the latest record of the purpose decides.
RECURSIVE LatestGranted(_, _, _)
LatestGranted(records, i, purpose) ==
    IF i = 0 THEN FALSE
    ELSE IF records[i].purpose = purpose THEN records[i].granted
    ELSE LatestGranted(records, i - 1, purpose)

hasConsent(consents, userId, purpose) ==
    LatestGranted(consents[userId], Len(consents[userId]), purpose)

\* Security.getConsents: consents.get(userId) || []
getConsents(consents, userId) == consents[userId]

\* Security.deleteUserData
deleteUserData(consents, userId) == [consents EXCEPT ![userId] = <<>>]

\* _registerMethod(pluginName, methodName, fn), for one method name.
registerMethod(ns, pluginName, fn) == [ns EXCEPT ![pluginName] = fn]

(***************************************************************************)
(* SpecIsolation: two stores, the security methods called on either.       *)
(***************************************************************************)
\* A faulty createStore whose maps are module-level, shared by every store:
\* C18 does not hold of it.
OwnShared(x) == "A"

\* The maps the methods of store x work on: createStore makes new ones for
\* every instance.
Own(x) == x

IsoPerms == {{"read"}, {"read", "write", "delete"}}

IsoAddRule(x) ==
    \E perms \in IsoPerms :
        /\ Len(addAccessRule(sec[Own(x)].accessRules, PatRegexBase, perms)) <= MaxRules
        /\ sec' = [sec EXCEPT ![Own(x)].accessRules = addAccessRule(@, PatRegexBase, perms)]

IsoCheck(x) ==
    \E k \in SrcKeys, a \in {"read", "write"} :
        sec' = [sec EXCEPT ![Own(x)].regexCache =
                   instanceHasPermission(sec[Own(x)], k, a, "u1").cache]

IsoRecordConsent(x) ==
    \E p \in Purposes, granted \in BOOLEAN :
        /\ Len(sec[Own(x)].consents["u1"]) < MaxConsents
        /\ sec' = [sec EXCEPT ![Own(x)].consents = recordConsent(@, "u1", p, granted)]

IsoRevokeConsent(x) ==
    \E p \in Purposes :
        /\ Len(sec[Own(x)].consents["u1"]) < MaxConsents
        /\ sec' = [sec EXCEPT ![Own(x)].consents = revokeConsent(@, "u1", p)]

IsoDeleteUserData(x) ==
    sec' = [sec EXCEPT ![Own(x)].consents = deleteUserData(@, "u1")]

IsoRegisterMethod(x) ==
    \E fn \in Methods :
        sec' = [sec EXCEPT ![Own(x)].methodNamespace = registerMethod(@, "p1", fn)]

\* A call of a security method, or of _registerMethod, on store x.
OnStore(x) ==
    /\ \/ IsoAddRule(x)
       \/ IsoCheck(x)
       \/ IsoRecordConsent(x)
       \/ IsoRevokeConsent(x)
       \/ IsoDeleteUserData(x)
       \/ IsoRegisterMethod(x)
    /\ out' = NewOut("security", KNone, Undef)
    /\ UNCHANGED <<st, txDepth, txLog, perm, syncVars, hyd, clk, undo, tabs, cloud>>

OnStoreA == OnStore("A")

OnStoreB == OnStore("B")

InitIsolation ==
    /\ InitRest
    /\ st = NewStore(<<>>)

NextIsolation ==
    \/ OnStoreA
    \/ OnStoreB

SpecIsolation == InitIsolation /\ [][NextIsolation]_vars

(***************************************************************************)
(* SpecRules: addAccessRule and instance.hasPermission on one store, with  *)
(* every kind of pattern.                                                  *)
(***************************************************************************)
RulePerms == {{"read"}, {"admin"}, {"write", "delete"}}

RulesAdd ==
    \E pat \in Patterns, perms \in RulePerms :
        /\ Len(addAccessRule(sec["A"].accessRules, pat, perms)) <= MaxRules
        /\ sec' = [sec EXCEPT !["A"].accessRules = addAccessRule(@, pat, perms)]
        /\ perm' = NoPerm
        /\ out' = NewOut("addAccessRule", KNone, Undef)
        /\ UNCHANGED <<st, txDepth, txLog, syncVars, hyd, clk, undo, tabs, cloud>>

RulesCheck ==
    \E k \in SrcKeys, a \in Permissions, u \in Users :
        LET r == instanceHasPermission(sec["A"], k, a, u)
        IN  /\ sec' = [sec EXCEPT !["A"].regexCache = r.cache]
            /\ perm' = [key |-> k, action |-> a, userId |-> u, ret |-> r.ret,
                        consulted |-> r.consulted]
            /\ out' = NewOut("hasPermission", k, Undef)
            /\ UNCHANGED <<st, txDepth, txLog, syncVars, hyd, clk, undo, tabs, cloud>>

InitRules ==
    /\ InitRest
    /\ st = NewStore(<<>>)

NextRules ==
    \/ RulesAdd
    \/ RulesCheck

SpecRules == InitRules /\ [][NextRules]_vars

(***************************************************************************)
(* SpecHooks: a store on which the plugins p1, p2 and crasher are          *)
(* installed in any order, and every operation that runs a hook.           *)
(***************************************************************************)
\* The hooks that throw when called: all those of crasher.
Crashes == {<<"crasher", h>> : h \in CrashHooks}

HookPlugins == {"p1", "p2", "crasher"}

HooksDone(w) ==
    /\ WithinBounds(w)
    /\ st' = w.s
    /\ out' = w.o
    /\ UNCHANGED <<txDepth, txLog, perm, syncVars, hyd, clk, sec, undo, tabs, cloud>>

HooksAddPlugin ==
    \E p \in HookPlugins : HooksDone(AddPlugin(Work(st, "addPlugin", KNone, Undef, {}), p))

HooksSet ==
    \E v \in {Num(0), Num(1)} :
        HooksDone(Set(Work(st, "set", KBase, v, Crashes), KBase, v, FALSE))

HooksGet == HooksDone(Get(Work(st, "get", KBase, Undef, Crashes), KBase))

HooksRemove == HooksDone(Remove(Work(st, "remove", KBase, Undef, Crashes), KBase))

\* transaction(fn) is entered ...
HooksTxBegin ==
    /\ txDepth = 0
    /\ LET w == TxEnter(Work(st, "txBegin", KStart, Undef, Crashes))
       IN  st' = w.s /\ out' = w.o
    /\ txDepth' = 1
    /\ UNCHANGED <<txLog, perm, syncVars, hyd, clk, sec, undo, tabs, cloud>>

\* ... and left.
HooksTxEnd ==
    /\ txDepth = 1
    /\ LET w == TxLeave(Work(st, "txEnd", KEnd, Undef, Crashes))
       IN  st' = w.s /\ out' = w.o
    /\ txDepth' = 0
    /\ UNCHANGED <<txLog, perm, syncVars, hyd, clk, sec, undo, tabs, cloud>>

HooksDestroy ==
    /\ txDepth = 0
    /\ HooksDone(Destroy(Work(st, "destroy", KNone, Undef, Crashes)))

InitHooks ==
    /\ InitRest
    /\ st = NewStore(<<>>)

NextHooks ==
    \/ HooksAddPlugin
    \/ HooksSet
    \/ HooksGet
    \/ HooksRemove
    \/ HooksTxBegin
    \/ HooksTxEnd
    \/ HooksDestroy

SpecHooks == InitHooks /\ [][NextHooks]_vars

(***************************************************************************)
(* SpecUndo: a store with the undo/redo plugin (guard.plugin.ts).          *)
(***************************************************************************)
UndoName == "gstate-undo-redo"

\* options.limit of the plugin.
UndoLimit == 3

UndoValues == {Num(0), Num(1)}

\* _setSilently(key, value): no sanitizing, no hooks, no notification.
setSilently(w, key, value) ==
    [w EXCEPT !.s.store[key] = Freeze(value),
              !.s.versions[key] = @ + 1,
              !.s.snapshot = NoSnapshot]

\* Object.entries(snapshot).forEach(([k, v]) => store._setSilently(k, v)):
\* the entries of a snapshot are the keys the store held when it was taken.
RECURSIVE Restore(_, _, _)
Restore(w, snapshot, keys) ==
    IF keys = <<>> THEN w
    ELSE LET k == Head(keys)
         IN Restore(IF snapshot[k] # Absent THEN setSilently(w, k, snapshot[k]) ELSE w,
                    snapshot, Tail(keys))

\* hooks.onInstall: the baseline snapshot.
UndoOnInstall(u, s) ==
    [u EXCEPT !.history = Append(@, list(s)), !.cursor = 0]

\* hooks.onSet
UndoOnSet(u, s) ==
    IF u.isRestoring THEN u
    ELSE LET kept == IF u.cursor < Len(u.history) - 1
                     THEN SubSeq(u.history, 1, u.cursor + 1) ELSE u.history
             pushed == Append(kept, list(s))
         IN IF Len(pushed) > UndoLimit
            THEN [u EXCEPT !.history = Tail(pushed)]
            ELSE [u EXCEPT !.history = pushed, !.cursor = @ + 1]

Installed(s, p) == \E i \in 1..Len(s.plugins) : s.plugins[i] = p

UndoBounds(w) == \A k \in Keys : w.s.versions[k] <= MaxVersion + UndoLimit

UndoDone(w, u) ==
    /\ UndoBounds(w)
    /\ st' = w.s
    /\ out' = w.o
    /\ undo' = u
    /\ txLog' = NoTx
    /\ UNCHANGED <<txDepth, perm, syncVars, hyd, clk, sec, tabs, cloud>>

\* store._addPlugin(undoRedoPlugin({ limit }))
UndoAddPlugin ==
    /\ ~Installed(st, UndoName)
    /\ LET w == AddPlugin(Work(st, "addPlugin", KNone, Undef, {}), UndoName)
       IN UndoDone(w, UndoOnInstall(undo, w.s))

\* store.set on the store: onSet of the plugin runs if the set commits.
UndoSet ==
    \E k \in SrcKeys, v \in UndoValues :
        LET w == Set(Work(st, "set", k, v, {}), k, v, FALSE)
            ran == \E i \in 1..Len(w.o.hooks) : w.o.hooks[i] = <<UndoName, "onSet", k>>
        IN UndoDone(w, IF ran THEN UndoOnSet(undo, w.s) ELSE undo)

\* store.plugins.undoRedo.undo()
UndoCall ==
    /\ Installed(st, UndoName)
    /\ LET w == Work(st, "undo", KNone, Undef, {})
       IN IF undo.cursor > 0
          THEN UndoDone(Return(Restore(w, undo.history[undo.cursor], KeyOrder), Bool(TRUE)),
                        [undo EXCEPT !.cursor = @ - 1])
          ELSE UndoDone(Return(w, Bool(FALSE)), undo)

\* store.plugins.undoRedo.redo()
RedoCall ==
    /\ Installed(st, UndoName)
    /\ LET w == Work(st, "redo", KNone, Undef, {})
       IN IF undo.cursor < Len(undo.history) - 1
          THEN UndoDone(Return(Restore(w, undo.history[undo.cursor + 2], KeyOrder), Bool(TRUE)),
                        [undo EXCEPT !.cursor = @ + 1])
          ELSE UndoDone(Return(w, Bool(FALSE)), undo)

InitUndo ==
    /\ InitRest
    /\ st = NewStore(<<>>)

NextUndo ==
    \/ UndoAddPlugin
    \/ UndoSet
    \/ UndoCall
    \/ RedoCall

SpecUndo == InitUndo /\ [][NextUndo]_vars

(***************************************************************************)
(* SpecTabs: the tabs of one browser, each with a store and the cross-tab  *)
(* sync plugin (sync.plugin.ts) on the same channel.  A message posted on  *)
(* a BroadcastChannel is queued for every other tab and handled there      *)
(* later, in the order of posting.                                         *)
(***************************************************************************)
SyncName == "gstate-sync"

TabValues == {Num(1), Num(2)}

TabBounds(w) == \A k \in Keys : w.s.versions[k] <= MaxVersion

\* _channel.postMessage(msg) in tab t
postMessage(tb, t, msg) ==
    [u \in Tabs |-> IF u = t THEN tb[u] ELSE [tb[u] EXCEPT !.inbox = Append(@, msg)]]

\* Faulty hooks without the _isSyncing guard: they post whenever they run.
PostsAlways(tb, t, w, hook) ==
    \E i \in 1..Len(w.o.hooks) : w.o.hooks[i] = <<SyncName, hook, w.o.key>>

\* Whether the plugin's hook ran in the operation, and ran past its guard.
Posts(tb, t, w, hook) ==
    /\ ~tb[t].isSyncing
    /\ \E i \in 1..Len(w.o.hooks) : w.o.hooks[i] = <<SyncName, hook, w.o.key>>

TabDone(t, w, tb) ==
    /\ TabBounds(w)
    /\ tabs' = [tb EXCEPT ![t].s = w.s]
    /\ out' = w.o
    /\ txLog' = NoTx
    /\ UNCHANGED <<st, txDepth, perm, syncVars, hyd, clk, sec, undo, cloud>>

\* The application of tab t calls store.set: hooks.onSet posts the write.
TabSet ==
    \E t \in Tabs, v \in TabValues :
        LET w == Set(Work(tabs[t].s, "set", KBase, v, {}), KBase, v, FALSE)
        IN TabDone(t, w, IF Posts(tabs, t, w, "onSet")
                         THEN postMessage(tabs, t, [key |-> KBase, value |-> v, action |-> "SET"])
                         ELSE tabs)

\* The application of tab t calls store.remove: hooks.onRemove posts it.
TabRemove ==
    \E t \in Tabs :
        LET w == Remove(Work(tabs[t].s, "remove", KBase, Undef, {}), KBase)
        IN TabDone(t, w, IF Posts(tabs, t, w, "onRemove")
                         THEN postMessage(tabs, t, [key |-> KBase, value |-> Undef,
                                                    action |-> "REMOVE"])
                         ELSE tabs)

\* _channel.onmessage in tab t: _isSyncing is set, the write is applied and
\* runs the hooks of the plugin, _isSyncing is cleared.
onmessage ==
    \E t \in Tabs :
        /\ tabs[t].inbox # <<>>
        /\ LET msg == Head(tabs[t].inbox)
               tb == [tabs EXCEPT ![t].inbox = Tail(@), ![t].isSyncing = TRUE]
               w == IF msg.action = "REMOVE"
                    THEN Remove(Work(tabs[t].s, "remove", msg.key, Undef, {}), msg.key)
                    ELSE Set(Work(tabs[t].s, "set", msg.key, msg.value, {}),
                             msg.key, msg.value, FALSE)
               hook == IF msg.action = "REMOVE" THEN "onRemove" ELSE "onSet"
               tb1 == IF Posts(tb, t, w, hook) THEN postMessage(tb, t, msg) ELSE tb
           IN TabDone(t, [w EXCEPT !.o.op = "onmessage"],
                      [tb1 EXCEPT ![t].isSyncing = FALSE])

InitTabs ==
    /\ InitCore
    /\ hyd = NoHydration
    /\ st = NewStore(<<>>)
    /\ tabs = [t \in Tabs |-> [NewTab EXCEPT !.s.plugins = <<SyncName>>]]

NextTabs ==
    \/ TabSet
    \/ TabRemove
    \/ onmessage

SpecTabs == InitTabs /\ [][NextTabs]_vars

(***************************************************************************)
(* SpecSnapshot: getSnapshot between the operations that change the store. *)
(***************************************************************************)
\* The snapshot objects one behaviour builds.
MaxSnapshots == 3

\* getSnapshot(): builds the object if there is none, and returns _snapshot.
getSnapshot(w) ==
    IF w.s.snapshot = NoSnapshot
    THEN [w EXCEPT !.s.snapshot = [id |-> w.s.snapshots + 1, d |-> w.s.store],
                   !.s.snapshots = @ + 1]
    ELSE w

\* deleteAll(): remove of every key of the store, then every record of the
\* namespace is taken out of the storage (the full-state record, whose key
\* is the namespace without the underscore, is not one of them).
RECURSIVE RemoveEach(_, _)
RemoveEach(w, keys) ==
    IF keys = <<>> THEN w
    ELSE RemoveEach(IF w.s.store[Head(keys)] # Absent THEN Remove(w, Head(keys)) ELSE w,
                    Tail(keys))

deleteAll(w) ==
    Return([RemoveEach(w, KeyOrder) EXCEPT !.s.storage = [k \in SrcKeys |-> NoRecord],
                                           !.s.snapshot = NoSnapshot,
                                           !.o.op = "deleteAll",
                                           !.o.committed = TRUE],
           Bool(TRUE))

SnapValues == {Num(0), Num(1)}

SnapSet == SetCall(SrcKeys, SnapValues, {FALSE}, {{}})

SnapRemove == RemoveCall(SrcKeys)

SnapSetSilently ==
    \E k \in SrcKeys, v \in SnapValues :
        Done([setSilently(Work(st, "setSilently", k, v, {}), k, v) EXCEPT !.o.committed = TRUE])

SnapDeleteAll == Done(deleteAll(Work(st, "deleteAll", KNone, Undef, {})))

SnapDestroy == Done(Destroy(Work(st, "destroy", KNone, Undef, {})))

SnapGet ==
    /\ st.snapshots < MaxSnapshots
    /\ Done(getSnapshot(Work(st, "getSnapshot", KNone, Undef, {})))

InitSnapshot ==
    /\ InitRest
    /\ st = NewStore(<<>>)

NextSnapshot ==
    \/ SnapSet
    \/ SnapRemove
    \/ SnapSetSilently
    \/ SnapDeleteAll
    \/ SnapDestroy
    \/ SnapGet

SpecSnapshot == InitSnapshot /\ [][NextSnapshot]_vars

(***************************************************************************)
(* SpecPersist: a store with a storage adapter and persistByDefault false. *)
(* The key base is written with and without the persist option, the key x  *)
(* always without it.                                                      *)
(***************************************************************************)
PersistValues == {Num(0), Num(1)}

PersistSet == SetCall({KBase}, PersistValues, BOOLEAN, {{}})

PlainSet == SetCall({KX}, PersistValues, {FALSE}, {{}})

PersistRemove == RemoveCall(SrcKeys)

InitPersist ==
    /\ InitRest
    /\ st = NewStore(<<>>)

NextPersist ==
    \/ PersistSet
    \/ PlainSet
    \/ PersistRemove
    \/ FlushTimer

SpecPersist == InitPersist /\ [][NextPersist]_vars

(***************************************************************************)
(* SpecEncrypt: a store with a storage adapter and an encryption key.  The *)
(* key base is written with persist, with and without the encrypted        *)
(* option, so the disk queue has one entry at most and the loop of         *)
(* flushDisk one round.  A round for an encrypted entry stops at           *)
(* `await Security.encrypt` and goes on when the promise has resolved;     *)
(* st.flushing holds the values whose encryption is awaited, one per flush *)
(* that is suspended.                                                      *)
(***************************************************************************)
MaxPending == 2

\* Security.encrypt: the ciphertext of a value (base64 of iv and AES-GCM).
Encrypt(v) == [t |-> "cipher", n |-> v.n, items |-> v.items]

\* What a record of the storage holds, decrypted if it is a ciphertext.
Decrypt(d) == IF d.t = "cipher" THEN Num(d.n) ELSE d

\* storage.setItem(prefix + key, {v: versions.get(key) || 1, d: dataValue}).
setItem(s, k, dataValue) ==
    [s EXCEPT !.storage[k] = [v |-> IF s.versions[k] = 0 THEN 1 ELSE s.versions[k],
                              d |-> dataValue]]

\* set('base', v, {persist: true, encrypted})
EncSet ==
    \E v \in PersistValues, enc \in BOOLEAN :
        LET w == Work(st, "set", KBase, v, {})
        IN Done(Set([w EXCEPT !.o.encrypted = enc], KBase, v, TRUE))

\* The debounce timer fires: flushDisk runs up to its first await.  The
\* full-state record is written, the queue is copied and cleared; a plain
\* entry is written at once, an encrypted one waits for its ciphertext.
FlushBegin ==
    /\ st.diskTimer
    /\ Len(st.flushing) < MaxPending
    /\ LET entry == st.diskQueue[KBase]
           s1 == [st EXCEPT !.fullState = [written |-> TRUE, d |-> st.store],
                            !.diskQueue = [k \in SrcKeys |-> NoEntry],
                            !.diskTimer = FALSE]
       IN st' = IF ~entry.persist THEN s1
                ELSE IF entry.encrypted
                     THEN [s1 EXCEPT !.flushing = Append(@, entry.value)]
                     ELSE setItem(s1, KBase, entry.value)
    /\ out' = NewOut("flush", KNone, Undef)
    /\ txLog' = NoTx
    /\ UNCHANGED <<txDepth, perm, syncVars, hyd, clk, sec, undo, tabs, cloud>>

\* The promise of Security.encrypt of a suspended flush resolves: the flush
\* writes the record and ends.  crypto.subtle runs the encryptions in
\* parallel, so any of the suspended flushes may be the one that goes on.
FlushResume ==
    \E i \in 1..Len(st.flushing) :
        /\ st' = [setItem(st, KBase, Encrypt(st.flushing[i]))
                    EXCEPT !.flushing = SubSeq(@, 1, i - 1) \o SubSeq(@, i + 1, Len(@))]
        /\ out' = NewOut("flushed", KNone, Undef)
        /\ txLog' = NoTx
        /\ UNCHANGED <<txDepth, perm, syncVars, hyd, clk, sec, undo, tabs, cloud>>

NextEncrypt ==
    \/ EncSet
    \/ FlushBegin
    \/ FlushResume

SpecEncrypt == InitPersist /\ [][NextEncrypt]_vars

(***************************************************************************)
(* SpecCloud: a store with the cloud-sync plugin, whose hooks are          *)
(* onInstall and onDestroy only.  sync() runs up to `await adapter.save`   *)
(* in one step; the adapter answers true, false or by throwing in another. *)
(***************************************************************************)
CloudSet == SetCall(SrcKeys, PersistValues, {FALSE}, {{}})

\* The keys of store.list() whose version is above the one of the last scan.
Dirty(s, c) ==
    {k \in SrcKeys : list(s)[k] # Absent /\ VersionOf(s, k) > c.lastSyncedVersions[k]}

\* dirtyData, and (v) the versions the scan read.
DirtyData(s, c) ==
    [d |-> [k \in SrcKeys |-> IF k \in Dirty(s, c) THEN list(s)[k] ELSE Absent],
     v |-> [k \in SrcKeys |-> IF k \in Dirty(s, c) THEN s.versions[k] ELSE 0]]

\* plugins.cloudSync.sync(), up to its return or to the call of adapter.save:
\* the scan sets lastSyncedVersions of every key it puts in dirtyData.
CloudSyncCall ==
    /\ Len(cloud.pending) < MaxPending
    /\ LET dirty == Dirty(st, cloud)
           c1 == [cloud EXCEPT !.lastSyncedVersions =
                      [k \in SrcKeys |-> IF k \in dirty THEN st.versions[k] ELSE @[k]]]
       IN cloud' = IF dirty = {}
                   THEN [c1 EXCEPT !.status = "no-change"]
                   ELSE [c1 EXCEPT !.status = "none",
                                   !.pending = Append(@, DirtyData(st, cloud))]
    /\ out' = NewOut("cloudSync", KNone, Undef)
    /\ UNCHANGED <<st, txDepth, txLog, perm, syncVars, hyd, clk, sec, undo, tabs>>

\* adapter.save of the oldest call in flight settles: with true the adapter
\* has the data and sync() returns success; with false, or when save throws,
\* sync() returns error.
CloudSaveReturn ==
    /\ cloud.pending # <<>>
    /\ \E answer \in {"true", "false", "throws"} :
          LET data == Head(cloud.pending)
              c1 == [cloud EXCEPT !.pending = Tail(@)]
          IN cloud' = IF answer = "true"
                      THEN [c1 EXCEPT !.status = "success",
                                      !.saved = [k \in SrcKeys |->
                                                   IF data.d[k] # Absent
                                                   THEN [v |-> data.v[k], d |-> data.d[k]]
                                                   ELSE @[k]]]
                      ELSE [c1 EXCEPT !.status = "error"]
    /\ out' = NewOut("cloudSaved", KNone, Undef)
    /\ UNCHANGED <<st, txDepth, txLog, perm, syncVars, hyd, clk, sec, undo, tabs>>

InitCloud ==
    /\ InitRest
    /\ st = NewStore(<<>>)

NextCloud ==
    \/ CloudSet
    \/ CloudSyncCall
    \/ CloudSaveReturn

SpecCloud == InitCloud /\ [][NextCloud]_vars

(***************************************************************************)
(* SpecThrow: transactions, not nested, whose body returns or throws, on   *)
(* a store with the plugin p1.                                             *)
(***************************************************************************)
ThrowSet == SetCall(SrcKeys, PersistValues, {FALSE}, {{}})

ThrowRemove == RemoveCall(SrcKeys)

ThrowBegin == txDepth = 0 /\ TransactionBegin

\* try { fn() } finally { ... } when fn throws: the finally block runs and
\* the exception leaves transaction().
TxThrow(w) == [TxLeave(w) EXCEPT !.o.threw = TRUE]

\* The body of the transaction in progress throws.
TransactionThrow ==
    /\ txDepth = 1
    /\ LET w == TxThrow(Work(st, "txThrow", KNone, Undef, {}))
       IN /\ st' = w.s
          /\ out' = w.o
          /\ txLog' = [txLog EXCEPT !.active = FALSE, !.done = TRUE, !.threw = TRUE,
                                    !.nGlobalEnd = w.o.nGlobal]
    /\ txDepth' = 0
    /\ UNCHANGED <<perm, syncVars, hyd, clk, sec, undo, tabs, cloud>>

InitThrow ==
    /\ InitRest
    /\ st = AddPlugin(Work(NewStore(<<>>), "create", KNone, Undef, {}), "p1").s

NextThrow ==
    \/ ThrowSet
    \/ ThrowRemove
    \/ ThrowBegin
    \/ TransactionEnd
    \/ TransactionThrow

SpecThrow == InitThrow /\ [][NextThrow]_vars

(***************************************************************************)
(* SpecRead: the read paths of a store whose access rules are added while  *)
(* it holds values.                                                        *)
(***************************************************************************)
\* list(): Object.fromEntries(_store.entries())
ReadList == Done(Work(st, "list", KNone, Undef, {}))

NextRead ==
    \/ GateSet
    \/ GateGet
    \/ GateAddRule
    \/ ReadList
    \/ SnapGet

SpecRead == InitGate /\ [][NextRead]_vars

(***************************************************************************)
(* SpecGraph: two computed keys registered with any of the selectors, in   *)
(* any order: chains, diamonds (a key that reads base and the other        *)
(* computed key) and cycles (two keys that read each other).               *)
(***************************************************************************)
GraphKeys == {L(1), L(2)}

GraphValues == {Num(0), Num(1)}

\* A computed key is recomputed, and its version raised, once per call on
\* the stack.
GraphBounds(w) ==
    \A k \in Keys : w.s.versions[k] <= IF k \in SrcKeys THEN MaxVersion
                                       ELSE MaxVersion + MaxStack

GraphDone(w) ==
    /\ GraphBounds(w)
    /\ txDepth' = IF w.o.op = "txBegin" THEN 1 ELSE IF w.o.op = "txEnd" THEN 0 ELSE txDepth
    /\ st' = w.s
    /\ out' = w.o
    /\ UNCHANGED <<txLog, perm, syncVars, hyd, clk, sec, undo, tabs, cloud>>

GraphSet ==
    \E k \in SrcKeys, v \in GraphValues :
        GraphDone(Set(Work(st, "set", k, v, {}), k, v, FALSE))

GraphRemove ==
    \E k \in SrcKeys : GraphDone(Remove(Work(st, "remove", k, Undef, {}), k))

GraphCompute ==
    \E c \in GraphKeys, sel \in Selectors :
        GraphDone(ComputeWith(Work(st, "compute", c, Undef, {}), c, sel))

\* transaction(fn) is entered, and left: the calls of fn are the steps between.
GraphTxBegin ==
    /\ txDepth = 0
    /\ GraphDone(TxEnter(Work(st, "txBegin", KNone, Undef, {})))

GraphTxEnd ==
    /\ txDepth = 1
    /\ GraphDone(TxLeave(Work(st, "txEnd", KNone, Undef, {})))

InitGraph ==
    /\ InitRest
    /\ st = NewStore(<<>>)

NextGraph ==
    \/ GraphSet
    \/ GraphRemove
    \/ GraphCompute
    \/ GraphTxBegin
    \/ GraphTxEnd

SpecGraph == InitGraph /\ [][NextGraph]_vars

(***************************************************************************)
(* Properties.                                                             *)
(***************************************************************************)
NoNotify(o) ==
    /\ o.nGlobal = 0
    /\ \A k \in Keys : o.nKey[k] = 0 /\ o.nWatch[k] = 0

HookRan(o, name) == \E i \in 1..Len(o.hooks) : o.hooks[i][2] = name

HookThrew(o, name) == \E i \in 1..Len(o.errors) : o.errors[i][3] = name

AuditHas(o, e) == \E i \in 1..Len(o.audit) : o.audit[i] = e

\* C1: a set(k, v) that commits, immediately followed by a set(k, v') with v'
\* deep-equal to v: the second call returns false and does nothing -- the
\* version of k has gone up by exactly 1 over the two calls, no per-key,
\* watcher or global notification, no onSet hook, nothing queued for persistence.
C1_Idempotent ==
    [][ ( /\ out.op = "set" /\ out.committed /\ out.ret = Bool(TRUE)
          /\ out'.op = "set" /\ out'.key = out.key /\ out'.arg = out.arg )
        => ( /\ out'.ret = Bool(FALSE)
             /\ ~out'.committed
             /\ st'.versions[out.key] = out.ver0 + 1
             /\ st'.store = st.store
             /\ NoNotify(out')
             /\ ~HookRan(out', "onSet")
             /\ st'.diskQueue = st.diskQueue
             /\ st'.diskTimer = st.diskTimer ) ]_vars

C1_Witness ==
    /\ out.op = "set" /\ out.key = KX /\ out.arg = Obj(<<1>>)
    /\ out.ret = Bool(FALSE)
    /\ HookRan(out, "onBeforeSet")
    /\ st.store[KX] = Obj(<<1>>)
    /\ st.versions[KX] = 1
    /\ st.diskQueue[KX] = NoEntry

\* C2 as stated: a transaction whose body makes N >= 1 writes to distinct
\* keys (none of them throwing) notifies the global subscribers exactly once,
\* after the body, and the per-key subscribers once per committed write.
PureWrites ==
    /\ txLog.done /\ ~txLog.other
    /\ \A k \in Keys : txLog.writes[k] <= 1
    /\ \E k \in Keys : txLog.writes[k] = 1

NoRuleMatches(rules, key, userId) ==
    \A i \in 1..Len(rules) : ~Matches(rules[i].pat, key, userId)

C3_FailClosed ==
    perm.key # KNone
    => ( /\ Len(st.accessRules) = 0 => perm.ret
         /\ ( Len(st.accessRules) > 0
              /\ NoRuleMatches(st.accessRules, perm.key, perm.userId) ) => ~perm.ret )

C3_Witness ==
    /\ perm.key = KX /\ perm.action = "admin" /\ ~perm.ret
    /\ Len(st.accessRules) = MaxRules
    /\ NoRuleMatches(st.accessRules, perm.key, perm.userId)

\* C4: a set, get or remove that the access gate denies returns false (null
\* for get) and changes nothing: value, version, computed cache, persistence
\* queue and storage are as before, no hook has run, nobody was notified.
Denied(o) ==
    \/ o.op = "set" /\ AuditHas(o, <<"set", o.key, FALSE>>)
    \/ o.op = "get" /\ AuditHas(o, <<"get", o.key, FALSE>>)
    \/ o.op = "remove" /\ AuditHas(o, <<"delete", o.key, FALSE>>)

C4_DeniedNoEffect ==
    [][ Denied(out')
        => ( /\ out'.ret = IF out'.op = "get" THEN Null ELSE Bool(FALSE)
             /\ ~out'.threw
             /\ st' = st
             /\ out'.hooks = <<>>
             /\ NoNotify(out') ) ]_vars

C4_Witness ==
    /\ out.op = "remove" /\ Denied(out)
    /\ st.store[out.key] # Absent
    /\ st.storage[out.key] # NoRecord
    /\ st.diskQueue[out.key] # NoEntry
    /\ st.computed[L(1)].reg
    /\ Len(st.plugins) > 0

\* C5: a set during which an onBeforeSet hook throws is vetoed: the exception
\* reaches the caller and nothing is committed, queued, hooked or notified.
C5_Veto ==
    (out.op = "set" /\ HookThrew(out, "onBeforeSet"))
    => ( /\ out.threw
         /\ ~out.committed
         /\ ~HookRan(out, "onSet")
         /\ NoNotify(out) )

\* C6: with the chain l1 = base+1, ..., ln = l(n-1)+1 registered, after any
\* set('base', b) has returned, compute('ln') yields b + n.
ChainUp(n) ==
    \A i \in 1..n : st.computed[L(i)].reg /\ SrcOf(L(i)) \in st.computed[L(i)].deps

ComputeYields(c) == Compute(Work(st, "compute", c, Undef, {}), c).o.ret

C6_Chain ==
    (out.op = "set" /\ out.key = KBase /\ out.arg.t = "number" /\ ~out.threw)
    => \A n \in 1..ChainLen : ChainUp(n) => ComputeYields(L(n)) = Num(out.arg.n + n)

C6_Witness ==
    /\ out.op = "set" /\ out.key = KBase /\ out.arg = Num(MaxNum) /\ out.committed
    /\ ChainUp(ChainLen)
    /\ st.versions[L(ChainLen)] >= 2
    /\ ComputeYields(L(ChainLen)) = Num(MaxNum + ChainLen)

\* C7: when a write makes a dependent selector throw, the error is caught and
\* reported and the set or remove does not throw.
C7_Caught ==
    (IsWrite(out) /\ out.selErr # {})
    => (~out.threw /\ Len(out.errors) > 0)

ErrorFor(r, k) == \E i \in 1..Len(r.errors) : r.errors[i] = <<"Failed to sync", k>>

SyncedIn(r, k) == \E i \in 1..Len(r.syncedKeys) : r.syncedKeys[i] = k

\* C8: a push is attempted at most maxRetries times, and a key whose push got
\* no successful answer in any attempt (the fetch rejected, or the answer was
\* not 2xx) has an error in the result of the cycle, is not among its synced
\* keys, and is still in the pending queue when the cycle ends.
C8_RetriesExhausted ==
    /\ \A c \in Slots : cyc.pass[c].pc = "push" => cyc.pass[c].retries < maxRetries
    /\ cyc.last.kind = "done"
       => \A k \in cyc.last.exhausted :
            /\ ErrorFor(cyc.last, k)
            /\ ~SyncedIn(cyc.last, k)
            /\ k \in cyc.last.pending

\* C9: a key for which queueChange was called while a cycle was still
\* working on an earlier change of that key is in the pending queue when
\* that cycle ends.
C9_RequeuedStaysPending ==
    cyc.last.kind = "done" => cyc.last.requeued \subseteq cyc.last.pending

\* C10: a sync() or flush() called while a cycle is in progress returns the
\* failed result 'Sync already in progress' and starts nothing -- no pass, no
\* change of the pending queue, of the remote versions, of the server or of
\* the store; and at no time are two passes active.
ActivePasses(c) == {i \in Slots : c.pass[i].pc # "idle"}

C10_OnePass ==
    [][ /\ ((Flush \/ SyncTimerFire) /\ eng.isSyncing)
           => ( /\ cyc'.last = Rejected
                /\ ~cyc'.last.success
                /\ cyc'.pass = cyc.pass
                /\ eng'.pendingQueue = eng.pendingQueue
                /\ eng'.remoteVersions = eng.remoteVersions
                /\ eng'.isSyncing
                /\ net' = net
                /\ st' = st )
        /\ Cardinality(ActivePasses(cyc')) <= 1 ]_vars

C10_Witness ==
    /\ cyc.last = Rejected
    /\ eng.isSyncing
    /\ \E c \in Slots : cyc.pass[c].pc = "push" /\ cyc.pass[c].retries > 0
    /\ Len(eng.pendingQueue) = 2

\* C11: the for loop classifies every change of its snapshot by the remote
\* version the engine knows for the key: none => pushed, no handler call;
\* remote >= local => a conflict, the handler called once with both values
\* and both versions; remote < local => pushed, no handler call.
ConflictsOf(conflicts, k) == {i \in 1..Len(conflicts) : conflicts[i].key = k}

ClassifiedRight(log, conflicts, pushed) ==
    \A i \in 1..Len(log) :
        LET ch == log[i].change
            rv == log[i].remote
            calls == ConflictsOf(conflicts, ch.key)
        IN IF rv # NoRemote /\ rv.version >= ch.version
           THEN /\ log[i].class = "conflict"
                /\ log[i].res \in Resolutions
                /\ Cardinality(calls) = 1
                /\ \A j \in calls :
                     conflicts[j] = [key |-> ch.key, localValue |-> ch.value,
                                     remoteValue |-> rv.value,
                                     localVersion |-> ch.version,
                                     remoteVersion |-> rv.version]
           ELSE /\ log[i].class = IF rv = NoRemote THEN "new" ELSE "newer"
                /\ log[i].res = "none"
                /\ calls = {}
                /\ ch.key \in pushed

C11_Classified ==
    /\ \A c \in Slots :
         LET p == cyc.pass[c]
         IN /\ ClassifiedRight(p.log, p.conflicts, p.pushed)
            /\ \A i \in 1..Len(p.log) : p.log[i].change = p.changes[i]
            /\ p.pc = "push" => Len(p.log) = p.idx
    /\ cyc.last.kind = "done"
       => /\ ClassifiedRight(cyc.last.log, cyc.last.conflicts, cyc.last.pushed)
          /\ {cyc.last.log[i].change.key : i \in 1..Len(cyc.last.log)} = cyc.last.snapshot

C11_Witness ==
    /\ cyc.last.kind = "done"
    /\ Len(cyc.last.log) = 2
    /\ cyc.last.log[1].class = "conflict"
    /\ cyc.last.log[1].remote.version = cyc.last.log[1].change.version
    /\ cyc.last.log[2].class = "new"
    /\ \E k \in SyncKeys : eng.remoteVersions[k] # NoRemote
                           /\ eng.remoteVersions[k].version < VersionOf(st, k)

\* C12: when sync() returns, a key whose conflict the handler answered with
\* accept-remote (and that was not written again meanwhile) has the remote
\* value in the store, was not pushed, and is not in the pending queue.
AcceptedRemote(r) ==
    {i \in 1..Len(r.log) : r.log[i].res = "accept-remote"
                           /\ r.log[i].change.key \notin r.touched}

C12_AcceptRemote ==
    cyc.last.kind = "done"
    => \A i \in AcceptedRemote(cyc.last) :
         LET x == cyc.last.log[i].change.key
         IN /\ cyc.last.log[i].change.version <= cyc.last.log[i].remote.version
            /\ StoreGet(st, x) = cyc.last.log[i].remote.value
            /\ x \notin cyc.last.pushed
            /\ x \notin cyc.last.pending
            /\ x \notin QueueKeys(eng.pendingQueue)

C12_Witness ==
    /\ cyc.last.kind = "done"
    /\ \E i \in AcceptedRemote(cyc.last) :
         /\ cyc.last.log[i].change.value # cyc.last.log[i].remote.value
         /\ cyc.last.log[i].change.version < cyc.last.log[i].remote.version
         /\ StoreGet(st, cyc.last.log[i].change.key) = cyc.last.log[i].remote.value

\* C13: a key whose reconciliation throws does not stop the cycle: every
\* key of the snapshot is processed and ends either synced or with an error;
\* the key that threw stays pending and has exactly one error entry; success
\* is true iff there is no error; the result is handed to onSync.
ErrorsOf(r, k) == {i \in 1..Len(r.errors) : r.errors[i] = <<"Failed to sync", k>>}

C14_EventuallyReady == <>(hyd.ready)

\* The records createStore found that JSON.parse reads.
Readable(k) == hyd.found[k].kind = "meta"

\* The highest schema version among them, 0 if there is none.
HighestStored ==
    LET S == {0} \cup {hyd.found[k].sysv : k \in {j \in SrcKeys : Readable(j)}}
    IN  CHOOSE m \in S : \A x \in S : m >= x

PastExpiry(k) ==
    Readable(k) /\ hyd.found[k].e # 0 /\ hyd.found[k].e < HydrateTime

\* The value a record holds: its d, the object its JSON text or its cipher
\* text stands for, nothing if it cannot be decrypted.
Held(k) ==
    LET d == hyd.found[k].d
    IN  IF d = BadCipher THEN Absent
        ELSE IF d.t \in {"json", "cipher"} THEN Obj(d.items) ELSE d

\* The key/value pairs recovered from the storage.
RecoveredPairs ==
    [k \in SrcKeys |-> IF Readable(k) /\ ~PastExpiry(k) THEN Held(k) ELSE Absent]

MigrateCalled == Len(hyd.calls) >= 1

\* C15: when hydration has ended, migrate was called iff the highest stored
\* schema version is strictly lower than the configured version (and a
\* migrate function is configured); it was then called once, with the
\* recovered pairs and that version, and the store holds what it returned
\* ("100" at version 1, target version 3: 1050); otherwise the store holds
\* the recovered values themselves.
C15_Migration ==
    hyd.phase = "done" =>
       /\ Len(hyd.calls) <= 1
       /\ MigrateCalled <=> (HighestStored < hyd.version /\ hyd.migrate # "none")
       /\ MigrateCalled =>
             hyd.calls[1] = [state |-> RecoveredPairs, version |-> HighestStored]
       /\ (MigrateCalled /\ hyd.migrate = "steps") =>
             st.store = MigrateSteps(RecoveredPairs, HighestStored)
       /\ (/\ hyd.migrate = "steps" /\ hyd.version = 3
           /\ hyd.found[KBase] = [kind |-> "meta", sysv |-> 1, e |-> 0, d |-> Str100]
           /\ hyd.found[KX] = NoDisk) =>
             StoreGet(st, KBase) = Num(1050)
       /\ ~MigrateCalled => st.store = RecoveredPairs

\* The migration scenario has run and the migrated value was read.
C15_Witness ==
    /\ hyd.phase = "done"
    /\ MigrateCalled
    /\ hyd.version = 3
    /\ HighestStored = 1
    /\ StoreGet(st, KBase) = Num(1050)
    /\ out.op = "get"

\* The records that are readable, not past their expiry and decryptable.
Loadable(k) == Readable(k) /\ ~PastExpiry(k) /\ hyd.found[k].d # BadCipher

\* The key is in the store only because migrate returned a value for it from a
\* state that had none.
MadeByMigrate(k) ==
    /\ MigrateCalled
    /\ hyd.calls[1].state[k] = Absent
    /\ hyd.final[k] # Absent

\* C16: a stored record past its expiry at hydration never becomes visible:
\* its value is not recovered and is not handed to migrate, its key is absent
\* from the store (get yields undefined, list and getSnapshot have no such
\* entry) unless migrate itself made a value for the key, and when hydration
\* has ended the record is gone from the storage; the records that are not
\* past their expiry are recovered all the same and, when nothing is
\* migrated, are in the store.
C16_ExpiredDropped ==
    \A k \in SrcKeys :
       /\ PastExpiry(k) =>
             /\ hyd.persisted[k] = Absent
             /\ \A i \in 1..Len(hyd.calls) : hyd.calls[i].state[k] = Absent
             /\ list(st)[k] = Absent \/ MadeByMigrate(k)
             /\ list(st)[k] = Absent => StoreGet(st, k) = Undef
             /\ (out.op = "get" /\ out.key = k /\ ~MadeByMigrate(k)) => out.ret = Undef
             /\ hyd.phase = "done" => hyd.disk[k] = NoDisk
       /\ (Loadable(k) /\ hyd.phase = "done") =>
             /\ hyd.persisted[k] = Held(k)
             /\ hyd.disk[k] = hyd.found[k]
             /\ (hyd.committed /\ ~MigrateCalled) => list(st)[k] = Held(k)

\* One record was past its expiry and the other was not: the store has been
\* hydrated and the expired key has been read.
C16_Witness ==
    /\ hyd.phase = "done"
    /\ hyd.committed
    /\ PastExpiry(KBase)
    /\ Loadable(KX)
    /\ ~PastExpiry(KX)
    /\ hyd.found[KX].e # 0
    /\ list(st)[KX] = Str100
    /\ out.op = "get"
    /\ out.key = KBase
    /\ out.ret = Undef

\* The flushes that happened at time t.
FlushesAt(t) == {i \in 1..Len(clk.flushes) : clk.flushes[i] = t}

\* A committed persisting write at time t with none later than it and
\* earlier than t + debounceTime: the last write of its burst.
LastOfBurst(t) ==
    /\ t \in clk.writes
    /\ ~\E u \in clk.writes : t < u /\ u < t + debounceTime

\* C17: at most one flush timer is pending at any time; every flush happens
\* debounceTime after the last write of a burst of committed persisting
\* writes, and no two flushes happen for one burst; and once debounceTime
\* has passed after the last write of a burst, with no write at that very
\* moment, exactly one flush has happened for it.
C17_Debounce ==
    /\ Len(clk.timers) <= 1
    /\ (clk.timers # <<>>) => clk.timers[1] = clk.diskTimer
    /\ \A i \in 1..Len(clk.flushes) :
          /\ LastOfBurst(clk.flushes[i] - debounceTime)
          /\ Cardinality(FlushesAt(clk.flushes[i])) = 1
    /\ \A t \in clk.writes :
          (/\ LastOfBurst(t)
           /\ (t + debounceTime) \notin clk.writes
           /\ clk.now > t + debounceTime) =>
             Cardinality(FlushesAt(t + debounceTime)) = 1

\* A burst of two writes at different times, less than debounceTime apart,
\* has been followed by its one flush.
C17_Witness ==
    /\ \E t \in clk.writes : \E u \in clk.writes :
          /\ t < u
          /\ u < t + debounceTime
          /\ clk.flushes = <<u + debounceTime>>
          /\ clk.now > u + debounceTime
    /\ clk.timers = <<>>

\* What the callers of store y can observe of its security state: every
\* answer of hasPermission and hasConsent, getConsents, store.plugins.
Observed(y) ==
    LET c == sec[Own(y)]
    IN  [hasPermission |->
            [t \in SrcKeys \X Permissions \X Users |->
                instanceHasPermission(c, t[1], t[2], t[3]).ret],
         hasConsent |->
            [t \in Users \X Purposes |-> hasConsent(c.consents, t[1], t[2])],
         getConsents |-> [u \in Users |-> getConsents(c.consents, u)],
         plugins |-> c.methodNamespace]

\* C18: a call of addAccessRule, hasPermission, recordConsent, revokeConsent,
\* deleteUserData or _registerMethod on one store changes nothing of what
\* can be observed on any other store.
C18_Isolated ==
    [][\A x \in Stores : OnStore(x) =>
          \A y \in Stores \ {x} : Observed(y)' = Observed(y)]_vars

\* Store A has a rule, a consent and a plugin method; store B, on which
\* nothing was called, answers as a new store does.
C18_Witness ==
    /\ sec["A"].accessRules = <<[pat |-> PatRegexBase, perms |-> {"read"}]>>
    /\ hasConsent(sec["A"].consents, "u1", "marketing")
    /\ sec["A"].methodNamespace["p1"] = "fromA"
    /\ ~instanceHasPermission(sec["A"], KBase, "write", "u1").ret
    /\ sec["B"] = NewInstance
    /\ instanceHasPermission(sec["B"], KBase, "write", "u1").ret
    /\ ~hasConsent(sec["B"].consents, "u1", "marketing")

\* What rule i decides for the action.
Decides(rule, action) == action \in rule.perms \/ "admin" \in rule.perms

\* The rules of the store whose pattern matches the key of the last check.
MatchingChecked == MatchingRules(sec["A"].accessRules, perm.key, perm.userId)

\* C20: when some rule matches the key, hasPermission answers what the first
\* matching rule, in the order of the rule list, decides (the action or
\* admin is among its permissions), and no rule after that one is evaluated.
C20_FirstMatch ==
    (out.op = "hasPermission" /\ MatchingChecked # {}) =>
       /\ perm.ret = Decides(sec["A"].accessRules[FirstOf(MatchingChecked)], perm.action)
       /\ \A i \in perm.consulted : i <= FirstOf(MatchingChecked)
       /\ FirstOf(MatchingChecked) \in perm.consulted

\* Two rules match the checked key and decide differently: the first one
\* denies, the second one would permit.
C20_Witness ==
    /\ out.op = "hasPermission"
    /\ Cardinality(MatchingChecked) >= 2
    /\ \E j \in MatchingChecked :
          /\ j > FirstOf(MatchingChecked)
          /\ Decides(sec["A"].accessRules[j], perm.action)
    /\ ~Decides(sec["A"].accessRules[FirstOf(MatchingChecked)], perm.action)
    /\ ~perm.ret

\* The hook h of crasher was called, and threw, during the operation.
CrashedIn(o, h) ==
    \E i \in 1..Len(o.hooks) : o.hooks[i][1] = "crasher" /\ o.hooks[i][2] = h

\* The plugins whose hook h ran during the operation, in the order they ran.
RanHook(o, h) ==
    LET runs == SelectSeq(o.hooks, LAMBDA e : e[2] = h)
    IN  [i \in 1..Len(runs) |-> runs[i][1]]

\* The subscribers of key k were notified by a write made in state s.
Notified(s, s1, o, k) ==
    /\ k \in s.keyListeners => o.nKey[k] = 1
    /\ k \in s.watchers => o.nWatch[k] = 1
    /\ IF s.isTransaction THEN s1.pendingEmit ELSE o.nGlobal = s.listeners

\* The operation did what it does when no hook throws.
NormalResult(s, s1, o) ==
    /\ ~o.threw
    /\ o.op = "set" =>
          /\ o.committed
          /\ o.ret = Bool(TRUE)
          /\ s1.store[o.key] = o.arg
          /\ s1.versions[o.key] = s.versions[o.key] + 1
          /\ Notified(s, s1, o, o.key)
    /\ o.op = "remove" =>
          /\ o.committed
          /\ o.ret = Bool(s.store[o.key] # Absent)
          /\ s1.store[o.key] = Absent
          /\ Notified(s, s1, o, o.key)
    /\ o.op = "get" => o.ret = StoreGet(s, o.key)
    /\ o.op = "txBegin" => s1.isTransaction
    /\ o.op = "txEnd" =>
          /\ ~s1.isTransaction
          /\ s.pendingEmit => (o.nGlobal = s.listeners /\ ~s1.pendingEmit)
    /\ o.op = "destroy" =>
          /\ s1.plugins = <<>>
          /\ s1.store = [k \in SrcKeys |-> Absent]
          /\ s1.listeners = 0

\* C19: when a hook other than onBeforeSet throws during an operation, the
\* error is reported as plugin:<name>:<hook> with the key of the hook's
\* context, every installed plugin that defines the hook has still run it,
\* in registration order, and the operation commits, returns its normal
\* result and notifies the subscribers.
C19_HookIsolated ==
    [][\A h \in CrashHooks :
          CrashedIn(out', h) =>
             /\ \A i \in 1..Len(out'.hooks) :
                   (out'.hooks[i][1] = "crasher" /\ out'.hooks[i][2] = h) =>
                      \E j \in 1..Len(out'.errors) :
                         out'.errors[j] = <<"plugin", "crasher", h, out'.hooks[i][3]>>
             /\ RanHook(out', h) = SelectSeq(st.plugins, LAMBDA p : h \in PluginHooks(p))
             /\ NormalResult(st, st', out')]_vars

\* A set has committed and notified although the onSet hook of crasher,
\* installed first, threw: the onSet hook of a plugin installed after it ran.
C19_Witness ==
    /\ out.op = "set"
    /\ \E i \in 1..Len(out.hooks) : \E j \in 1..Len(out.hooks) :
          /\ i < j
          /\ out.hooks[i] = <<"crasher", "onSet", KBase>>
          /\ out.hooks[j][2] = "onSet"
          /\ out.hooks[j][1] # "crasher"
    /\ \E j \in 1..Len(out.errors) : out.errors[j] = <<"plugin", "crasher", "onSet", KBase>>
    /\ out.ret = Bool(TRUE)
    /\ st.store[KBase] = out.arg
    /\ out.nGlobal >= 1

\* The onTransaction hooks that ran during an operation: plugin and key.
TxHooks(o) ==
    LET runs == SelectSeq(o.hooks, LAMBDA e : e[2] = "onTransaction")
    IN  [i \in 1..Len(runs) |-> <<runs[i][1], runs[i][3]>>]

\* What C21 expects of them: every installed plugin that has the hook, once,
\* in registration order, with the given key.
TxHooksWith(s, key) ==
    LET ps == SelectSeq(s.plugins, LAMBDA p : "onTransaction" \in PluginHooks(p))
    IN  [i \in 1..Len(ps) |-> <<ps[i], key>>]

\* C21: a call of transaction(fn) invokes the onTransaction hook of every
\* installed plugin exactly twice: once with START when the call begins,
\* once with END when fn has finished, and never in between, whatever fn
\* does.
C21_TransactionHooks ==
    [][/\ out'.op = "txBegin" => TxHooks(out') = TxHooksWith(st, KStart)
       /\ out'.op = "txEnd" => TxHooks(out') = TxHooksWith(st, KEnd)
       /\ out'.op \notin {"txBegin", "txEnd"} => TxHooks(out') = <<>>
       /\ (out'.op = "txBegin") <=> (txDepth' = txDepth + 1)
       /\ (out'.op = "txEnd") <=> (txDepth' = txDepth - 1)]_vars

\* A transaction that changed a key has ended, and the hooks of two plugins
\* were called with END.
C21_Witness ==
    /\ out.op = "txEnd"
    /\ Len(TxHooks(out)) = 2
    /\ TxHooks(out) = TxHooksWith(st, KEnd)
    /\ st.store[KBase] # Absent
    /\ out.nGlobal >= 1

\* C22: while the body of a transaction is executing, no global subscriber
\* runs: a step that is taken inside the outermost transaction and does not
\* end it notifies no global listener.  It does not hold: the end of a
\* nested transaction clears _isTransaction and delivers the pending global
\* notification, and the writes the outer body makes after it notify the
\* global listeners one by one.
C22_NoGlobalInBody ==
    [][(txDepth > 0 /\ txDepth' > 0) => out'.nGlobal = 0]_vars

\* C23: the version of a key never decreases, whatever sets and hydration
\* do.  It does not hold: the commit of hydration sets the version of every
\* key it loads to 1, also of a key that was written, more than once, while
\* hydration was waiting for a decryption.
C23_VersionMonotonic ==
    [][\A k \in Keys : st'.versions[k] >= st.versions[k]]_vars

\* C24: without an onConflict handler the strategy decides a conflict: under
\* server-wins the key is not pushed and the store holds the remote value,
\* under client-wins the local value is pushed.  It does not hold: sync()
\* never reads config.strategy, and the default handler accepts the local
\* value under every strategy.
Conflicts(r) ==
    {i \in 1..Len(r.log) : r.log[i].class = "conflict"
                           /\ r.log[i].change.key \notin r.touched}

C24_StrategyDecides ==
    cyc.last.kind = "done"
    => \A i \in Conflicts(cyc.last) :
         LET x == cyc.last.log[i].change.key
         IN /\ eng.strategy = "server-wins"
               => /\ x \notin cyc.last.pushed
                  /\ StoreGet(st, x) = cyc.last.log[i].remote.value
            /\ eng.strategy = "client-wins" => x \in cyc.last.pushed

\* C25: after an undo() that returned true, store.list() equals the snapshot
\* taken before the most recent recorded change.  It does not hold: undo
\* writes the entries of the snapshot back and leaves every key alone that
\* the snapshot does not hold, so the first set of a key is never undone.
C25_UndoRestores ==
    [][(out'.op = "undo" /\ out'.ret = Bool(TRUE))
       => list(st') = undo.history[undo.cursor]]_vars

\* C26: once every broadcast message has been delivered, all tabs hold the
\* same value for the key.  It does not hold: a message carries no version
\* or time, and the receiver applies it whatever it wrote itself, so two
\* tabs that wrote at the same time end with each other's value.
Delivered == \A t \in Tabs : tabs[t].inbox = <<>>

C26_TabsConverge ==
    Delivered => \A t, u \in Tabs : StoreGet(tabs[t].s, KBase) = StoreGet(tabs[u].s, KBase)

\* C27: what getSnapshot returns maps the keys of the store to their values,
\* as list() does.  It does not hold: destroy clears the store and leaves
\* _snapshot as it is, so getSnapshot goes on returning the object built
\* before the destroy.
C27_SnapshotFresh ==
    out.op = "getSnapshot" => st.snapshot.d = list(st)

\* C28: the record a flush writes for a queued key that the store holds has
\* the value the store holds at that moment.  It does not hold: the flush
\* writes the value the persisting set put in the queue, and a later set of
\* the key without the persist option does not touch the queue.
Queued(s, k) == s.diskQueue[k].persist

C28_FlushCurrent ==
    [][out'.op = "flush"
       => \A k \in SrcKeys : (Queued(st, k) /\ st.store[k] # Absent)
                             => st'.storage[k].d = st.store[k]]_vars

\* C29: after a flush the storage has no record of a key that was written
\* with persist and removed before the flush.  It does not hold: remove
\* leaves the key in the queue, and the flush writes its record again.
C29_RemovedNotFlushed ==
    [][out'.op = "flush"
       => \A k \in SrcKeys : (Queued(st, k) /\ st.store[k] = Absent)
                             => st'.storage[k] = NoRecord]_vars

\* C30: nothing of the key x, which is never written with the persist
\* option, reaches the storage.  It does not hold: every flush writes the
\* whole store under the namespace key.
C30_PlainNotStored ==
    /\ st.storage[KX] = NoRecord
    /\ st.fullState.d[KX] = Absent

\* C31: no read path hands out the value of a key the rules deny read on:
\* get returns null, and neither the object list() returns nor the one
\* getSnapshot() returns has the key.  It does not hold: list and getSnapshot
\* copy every entry of the store and never ask the access gate.
Unreadable(s) ==
    {k \in SrcKeys : ~hasPermission(s.accessRules, k, "read", s.userId)}

C31_NoReadPath ==
    /\ (out.op = "get" /\ out.key \in Unreadable(st)) => out.ret = Null
    /\ out.op = "list" => \A k \in Unreadable(st) : list(st)[k] = Absent
    /\ out.op = "getSnapshot" => \A k \in Unreadable(st) : st.snapshot.d[k] = Absent

\* C32: after a set, a remove or a transaction has returned without error,
\* the cached value of every registered computed key is what its selector
\* yields on the current values, in every graph without a cycle, diamonds
\* included.
Registered(s) == {c \in CompKeys : s.computed[c].reg}

Probe(s) == Work(s, "probe", KNone, Undef, {})

Cyclic(s) ==
    \E c \in Registered(s) :
        /\ PeerOf(c) \in Registered(s) /\ PeerOf(c) # c
        /\ PeerOf(c) \in s.computed[c].deps
        /\ c \in s.computed[PeerOf(c)].deps

UpToDate(s) ==
    \A c \in Registered(s) :
        /\ ~SelThrowsOf(Probe(s), c)
        /\ s.computed[c].lastValue = SelValueOf(Probe(s), c)

C32_UpToDate ==
    (out.op \in {"set", "remove", "txEnd"} /\ ~out.threw /\ ~Cyclic(st)) => UpToDate(st)

\* A diamond: l2 reads base and l1, l1 reads base, l2 was registered first,
\* and a set of base has changed both.
C32_Witness ==
    /\ out.op = "set" /\ out.key = KBase /\ out.committed /\ ~out.threw
    /\ Registered(st) = GraphKeys
    /\ st.computed[L(2)].deps = {KBase, L(1)}
    /\ st.computed[L(1)].deps = {KBase}
    /\ st.computedDeps[KBase] = <<L(2), L(1)>>
    /\ st.versions[L(2)] >= 3
    /\ st.computed[L(2)].lastValue = Num(3)

\* C33: a set of a source key that two computed keys in a cycle read returns
\* before the call stack is used up.  It does not hold: nothing bounds the
\* recursion of _updateComputed and _emit, which ends only when a selector
\* yields the value it yielded before.
C33_CycleTerminates ==
    out.op = "set" => ~out.overflow

\* C34: when every flush has ended and nothing is queued, the storage record
\* of base holds the value of the last persisting set, also if that set ran
\* while a flush was suspended.  It does not hold: the suspended flush keeps
\* the value it took from the queue and writes it when its encryption has
\* resolved, after the flush of the later set has written.
Flushed(s) == s.flushing = <<>> /\ ~s.diskTimer /\ ~Queued(s, KBase)

C34_LaterWriteWins ==
    (Flushed(st) /\ st.store[KBase] # Absent)
        => Decrypt(st.storage[KBase].d) = st.store[KBase]

\* C35: a transaction, with the transactions nested in it, that committed a
\* write and in which nothing threw has notified the global subscribers
\* once, at its end, and not from its body.  It does not hold: the end of a nested transaction
\* clears _isTransaction, so it delivers the pending notification itself and
\* every later write of the outer body notifies on its own.
Committed(t) == \E k \in Keys : t.commits[k] > 0

C35_OneGlobalPerNest ==
    (txLog.done /\ ~txLog.threw /\ Committed(txLog))
        => txLog.nGlobalBody = 0 /\ txLog.nGlobalEnd = 1

InFlight(c, k) == \E i \in 1..Len(c.pending) : c.pending[i].d[k] # Absent

C37_SyncedMeansSaved ==
    /\ \A k \in SrcKeys :
          cloud.lastSyncedVersions[k] > cloud.saved[k].v => InFlight(cloud, k)
    /\ (out.op = "cloudSync" /\ cloud.status = "no-change" /\ cloud.pending = <<>>)
          => \A k \in SrcKeys :
                st.store[k] # Absent => cloud.saved[k] = [v |-> st.versions[k], d |-> st.store[k]]

\* C38: a tab that applies a write because of a message it received posts no
\* message: the step takes that message out of its inbox and leaves every
\* other inbox as it is, so the messages in flight get fewer; a write the
\* application of a tab makes adds at most one message to each inbox.
Inbox(tb, t) == tb[t].inbox

C38_NoRebroadcast ==
    [][/\ out'.op = "onmessage"
          => \E t \in Tabs :
                /\ Inbox(tabs, t) # <<>>
                /\ Inbox(tabs', t) = Tail(Inbox(tabs, t))
                /\ \A u \in Tabs \ {t} : Inbox(tabs', u) = Inbox(tabs, u)
       /\ out'.op \in {"set", "remove"}
          => \A u \in Tabs : Len(Inbox(tabs', u)) <= Len(Inbox(tabs, u)) + 1]_vars

\* A tab has applied a SET it received: the write committed, the onSet hook
\* of the plugin ran in it, and no inbox holds a message.
C38_Witness ==
    /\ out.op = "onmessage"
    /\ out.committed
    /\ \E i \in 1..Len(out.hooks) : out.hooks[i] = <<SyncName, "onSet", KBase>>
    /\ Delivered

\* C39: when the loop of sync() starts a push for a change that was in
\* conflict, the version pushed is above the remote version the conflict was
\* found with: under accept-local the local value goes out with the remote
\* version plus 1; under merge the merged value is in the local store and
\* goes out with the greater of the two versions plus 1.
Last(seq) == seq[Len(seq)]

StartsPush(p, q) == q.pc = "push" /\ Len(q.log) > Len(p.log)

C39_PushAboveRemote ==
    [][\A c \in Slots :
         (StartsPush(cyc.pass[c], cyc'.pass[c]) /\ Last(cyc'.pass[c].log).class = "conflict")
           => LET e == Last(cyc'.pass[c].log)
                  push == cyc'.pass[c].push
              IN /\ push.key = e.change.key
                 /\ push.version > e.remote.version
                 /\ e.res \in {"accept-local", "merge"}
                 /\ e.res = "accept-local"
                      => /\ push.value = e.change.value
                         /\ push.version = e.remote.version + 1
                 /\ e.res = "merge"
                      => /\ push.value = MergedValue
                         /\ StoreGet(st', e.change.key) = MergedValue
                         /\ push.version = Max(e.change.version, e.remote.version) + 1]_vars

\* A push of the merged value is in flight for a change whose remote version
\* was above the local one, and the store holds the merged value.
C39_Witness ==
    \E c \in Slots :
        LET p == cyc.pass[c]
        IN /\ p.pc = "push"
           /\ p.log # <<>>
           /\ Last(p.log).class = "conflict"
           /\ Last(p.log).res = "merge"
           /\ Last(p.log).remote.version > Last(p.log).change.version
           /\ p.push.version = Last(p.log).remote.version + 1
           /\ StoreGet(st, p.push.key) = MergedValue

\* C40: c is among the dependents of d exactly if d is in the dependency set
\* of c, that set is what the selector of c reads, and no key has a
\* dependent twice or one that is not registered.
C40_IndexAgrees ==
    /\ \A c \in CompKeys, d \in Keys :
         (c \in SeqSet(st.computedDeps[d])) <=> (c \in Registered(st) /\ d \in st.computed[c].deps)
    /\ \A c \in Registered(st) : st.computed[c].deps = SeqSet(ReadsOf(Probe(st), c))
    /\ \A d \in Keys : Cardinality(SeqSet(st.computedDeps[d])) = Len(st.computedDeps[d])

\* The selector that reads base only while x is truthy has read base, and
\* after a set of x to a falsy value its edge from base is gone.
C40_Witness ==
    /\ out.op = "set" /\ out.key = KX /\ out.committed
    /\ \E c \in Registered(st) :
         /\ st.computed[c].sel = "dyn"
         /\ st.computed[c].deps = {KX}
         /\ st.versions[c] >= 3
         /\ c \notin SeqSet(st.computedDeps[KBase])

====
